---- MODULE Spec2Model ----
(***************************************************************************)
(* A model of the investment-portfolio backend: the relational store       *)
(* (app/models.py), the HTTP handlers (app/routes.py) and the trading      *)
(* pipeline of BayesianTradingService (app/bayesian_service.py).           *)
(*                                                                         *)
(* Numbers.  Prices, returns and investment values are whole currency      *)
(* units.  Everything the code derives from them by division (regression   *)
(* slope and intercept, predicted return, position size, quantity) is an   *)
(* exact rational [num, den] in lowest terms with den > 0.  A standard     *)
(* deviation is kept as its square (the variance), a rational.  Floating   *)
(* point rounding is not modelled.                                         *)
(*                                                                         *)
(* Python's None is the empty set and a present value v is {v}.            *)
(***************************************************************************)
EXTENDS Integers, Sequences, FiniteSets, TLC

\* ------------------------------------------------------------------ bounds
MaxPortfolios == 2
MaxStrategies == 3
MaxInvestments == 2
MaxTrades == 2
MaxBatches == 2
MaxDay == 1
\* The longest price frame calculate_returns is applied to on its own.
MaxFrame == 4

\* ------------------------------------------------------- program constants
\* fit_statistical_model: fewer returns than this give no model.
MinReturns == 10
\* generate_trading_signal: get_market_data(symbol, days=100).
LookbackDays == 100
\* create_sample_data: days = 100.
SampleDays == 100
\* execute_paper_trade: the price used when no row is stored for the symbol.
DefaultPrice == 100

\* ------------------------------------------------------------------ values
None == {}
Some(v) == {v}
The(o) == CHOOSE v \in o : TRUE

Abs(i) == IF i < 0 THEN -i ELSE i

RECURSIVE Gcd(_, _)
Gcd(a, b) == IF b = 0 THEN a ELSE Gcd(b, a % b)

\* The rational n/d (d # 0) in lowest terms with a positive denominator.
Rat(n, d) ==
    LET g == Gcd(Abs(n), Abs(d))
        s == IF d < 0 THEN -1 ELSE 1
    IN  [num |-> s * (n \div g), den |-> s * (d \div g)]

RatInt(i) == [num |-> i, den |-> 1]
\* The sum, over the least common denominator to keep the numbers small.
RatAdd(a, b) ==
    LET g == Gcd(a.den, b.den)
    IN  Rat(a.num * (b.den \div g) + b.num * (a.den \div g), (a.den \div g) * b.den)
\* The product, reduced crosswise before multiplying to keep the numbers small.
RatMul(a, b) ==
    LET x == Rat(a.num, b.den)
        y == Rat(b.num, a.den)
    IN  [num |-> x.num * y.num, den |-> x.den * y.den]
RatLess(a, b) == a.num * b.den < b.num * a.den
RatSign(a) == IF a.num > 0 THEN 1 ELSE IF a.num < 0 THEN -1 ELSE 0

\* A standard deviation, kept as the variance it is the square root of.
Sqrt(variance) == [sq |-> variance]
\* The square root of a product a * b, the factors kept apart: the product of
\* their denominators need not fit the integers.
SqrtOfProduct(a, b) == [sq |-> a, times |-> b]
\* std < t for a standard deviation std and a rational t.
StdLess(std, t) == t.num > 0 /\ RatLess(std.sq, RatMul(t, t))

Symbols == {"AAPL", "MSFT"}

\* ------------------------------------------------------- the trading pipeline
RECURSIVE SumOver(_, _, _, _)
\* The sum over i in lo..hi of f[i] (w = 0), of (i-1)*f[i] (w = 1) or of
\* f[i]^2 (w = 2), by halving the range.
SumOver(f, lo, hi, w) ==
    IF lo > hi THEN 0
    ELSE IF lo = hi
    THEN CASE w = 0 -> f[lo] [] w = 1 -> (lo - 1) * f[lo] [] OTHER -> f[lo] * f[lo]
    ELSE LET mid == (lo + hi) \div 2
         IN  SumOver(f, lo, mid, w) + SumOver(f, mid + 1, hi, w)

\* calculate_returns taking the differences backward in time.
calculate_returns_backward(price_data) ==
    IF price_data = None \/ Len(The(price_data)) < 2 THEN None
    ELSE LET prices == The(price_data)
         IN  Some([i \in 1..(Len(prices) - 1) |-> prices[i] - prices[i + 1]])

\* calculate_returns: np.diff of the closing prices; None below two rows.
calculate_returns(price_data) ==
    IF price_data = None \/ Len(The(price_data)) < 2 THEN None
    ELSE LET prices == The(price_data)
         IN  Some([i \in 1..(Len(prices) - 1) |-> prices[i + 1] - prices[i]])

\* stats.linregress(np.arange(n), returns) with np.mean and np.std, in closed
\* form.  With X = 0..n-1: cov(X, y) = B/(2n) where B = 2*sum(x*y) - (n-1)*sum(y)
\* and var(X) = (n^2-1)/12, so slope = 6B/(n(n^2-1)) and
\* intercept = mean(y) - slope*(n-1)/2 = (sum(y)(n+1) - 3B)/(n(n+1)).
\* std_err^2 = (var(y) - cov^2/var(X)) * (1 / (var(X) * (n-2))).
LeastSquares(n, sumY, sumXY, sumYY) ==
    LET B == 2 * sumXY - (n - 1) * sumY
    IN  [intercept |-> Rat(sumY * (n + 1) - 3 * B, n * (n + 1)),
         slope |-> Rat(6 * B, n * (n * n - 1)),
         std_err |-> SqrtOfProduct(Rat((n * sumYY - sumY * sumY) * (n * n - 1)
                                          - 3 * B * B,
                                       n * n * (n * n - 1)),
                                   Rat(12, (n * n - 1) * (n - 2))),
         mean_return |-> Rat(sumY, n),
         std_return |-> Sqrt(Rat(n * sumYY - sumY * sumY, n * n))]

\* LinRegress over the day indices 1..n.
LinRegressFromOne(returns) ==
    LeastSquares(Len(returns),
                 SumOver(returns, 1, Len(returns), 0),
                 SumOver(returns, 1, Len(returns), 1)
                    + SumOver(returns, 1, Len(returns), 0),
                 SumOver(returns, 1, Len(returns), 2))

LinRegress(returns) ==
    LeastSquares(Len(returns),
                 SumOver(returns, 1, Len(returns), 0),
                 SumOver(returns, 1, Len(returns), 1),
                 SumOver(returns, 1, Len(returns), 2))

\* predict_next_return on the last index of the fitted window.
predict_next_return_inside(model_params, next_day_index) ==
    IF model_params = None THEN [predicted_return |-> None, confidence |-> None]
    ELSE LET m == The(model_params)
         IN  [predicted_return |->
                  Some(RatAdd(m.intercept,
                              RatMul(m.slope, RatInt(next_day_index - 1)))),
              confidence |-> Some(m.std_return)]

\* predict_next_return: (predicted_return, confidence), or (None, None).
predict_next_return(model_params, next_day_index) ==
    IF model_params = None THEN [predicted_return |-> None, confidence |-> None]
    ELSE LET m == The(model_params)
         IN  [predicted_return |->
                  Some(RatAdd(m.intercept, RatMul(m.slope, RatInt(next_day_index)))),
              confidence |-> Some(m.std_return)]

\* --------------------------------------------------------------- the state
VARIABLES
    portfolios,   \* Portfolio rows
    investments,  \* Investment rows
    strategies,   \* TradingStrategy rows
    trades,       \* Trade rows
    marketData,   \* MarketData rows, as the committed insert batches in order
    seq,          \* the AUTO_INCREMENT counter of each table
    env,          \* which of ALPACA_API_KEY, ALPACA_SECRET_KEY are set
    today,        \* the current date, a day number
    last          \* the last operation: its inputs, what it returned and logged

vars == <<portfolios, investments, strategies, trades, marketData, seq, env, today, last>>

\* dict.get(key) and dict.get(key, default) on a JSON request body.
Get(data, key) == IF key \in DOMAIN data THEN Some(data[key]) ELSE None
GetOr(data, key, default) == IF key \in DOMAIN data THEN data[key] ELSE default

RECURSIVE Flatten(_)
Flatten(batches) ==
    IF batches = <<>> THEN <<>> ELSE Head(batches) \o Flatten(Tail(batches))

\* All committed MarketData rows; a row's id is its position.
Rows == Flatten(marketData)

RECURSIVE SumValues(_)
SumValues(rows) ==
    IF rows = {} THEN 0
    ELSE LET r == CHOOSE x \in rows : TRUE
         IN  r.current_value + SumValues(rows \ {r})

\* Portfolio.calculate_total_value: the sum over the portfolio's investments.
calculate_total_value(portfolio_id) ==
    SumValues({i \in investments : i.portfolio_id = portfolio_id})

\* datetime.utcnow() at microsecond `micro` of second 0 of the current day.
utcnow(micro) == [day |-> today, second |-> 0, micro |-> micro]
\* A DATETIME column holds whole seconds: the fraction is rounded on insert.
StoreDateTime(t) ==
    [day |-> t.day,
     second |-> IF 2 * t.micro >= 1000000 THEN t.second + 1 ELSE t.second,
     micro |-> 0]
\* datetime.isoformat(): the microseconds are printed only when not zero.
isoformat(t) ==
    IF t.micro = 0 THEN <<t.day, t.second>> ELSE <<t.day, t.second, t.micro>>

Init ==
    /\ portfolios = {}
    /\ investments = {}
    /\ strategies = {}
    /\ trades = {}
    /\ marketData = <<>>
    /\ seq = [portfolio |-> 0, investment |-> 0, strategy |-> 0, trade |-> 0]
    /\ env \in [api_key : BOOLEAN, secret_key : BOOLEAN]
    /\ today = 0
    /\ last = [op |-> "start"]

\* ------------------------------------------------------------ the handlers
\* create_portfolio answering with the object as built, not as stored.
create_portfolio_unrefreshed(data, micro) ==
    IF Get(data, "name") = None
    THEN /\ last' = [op |-> "create_portfolio", status |-> 500, success |-> FALSE]
         /\ UNCHANGED <<portfolios, seq>>
    ELSE /\ portfolios' = portfolios \cup
                {[id |-> seq.portfolio + 1,
                  name |-> The(Get(data, "name")),
                  description |-> GetOr(data, "description", ""),
                  created_at |-> StoreDateTime(utcnow(micro))]}
         /\ seq' = [seq EXCEPT !.portfolio = seq.portfolio + 1]
         /\ last' = [op |-> "create_portfolio", status |-> 201, success |-> TRUE,
                     portfolio |-> [id |-> seq.portfolio + 1,
                                    name |-> The(Get(data, "name")),
                                    description |-> GetOr(data, "description", ""),
                                    created_at |-> isoformat(utcnow(micro))]]

\* POST /api/portfolios.  name is NOT NULL: without it the commit raises, the
\* session is rolled back and the answer is 500.  After the commit the row is
\* read back from the table, so the answer shows the stored values.
create_portfolio(data, micro) ==
    LET name == Get(data, "name")
        id == seq.portfolio + 1
        row == [id |-> id,
                name |-> The(name),
                description |-> GetOr(data, "description", ""),
                created_at |-> StoreDateTime(utcnow(micro))]
    IN  IF name = None
        THEN /\ last' = [op |-> "create_portfolio", status |-> 500, success |-> FALSE]
             /\ UNCHANGED <<portfolios, seq>>
        ELSE /\ portfolios' = portfolios \cup {row}
             /\ seq' = [seq EXCEPT !.portfolio = id]
             /\ last' = [op |-> "create_portfolio", status |-> 201, success |-> TRUE,
                         portfolio |-> [id |-> row.id,
                                        name |-> row.name,
                                        description |-> row.description,
                                        created_at |-> isoformat(row.created_at)]]

CreatePortfolio(data, micro) ==
    /\ seq.portfolio < MaxPortfolios
    /\ create_portfolio(data, micro)
    /\ UNCHANGED <<investments, strategies, trades, marketData, env, today>>

\* GET /api/portfolios: the listing built from Portfolio.query.all().
PortfolioListing ==
    {[id |-> p.id,
      name |-> p.name,
      description |-> p.description,
      created_at |-> isoformat(p.created_at),
      total_value |-> calculate_total_value(p.id)] : p \in portfolios}

GetPortfolios ==
    /\ last' = [op |-> "get_portfolios", status |-> 200, success |-> TRUE,
                portfolios |-> PortfolioListing]
    /\ UNCHANGED <<portfolios, investments, strategies, trades, marketData, seq, env, today>>

\* POST /api/strategies.  name, symbol and portfolio_id are NOT NULL and
\* portfolio_id is a foreign key: a request that breaks one of them raises at
\* the commit, is rolled back and answered with 500.
StrategyRow(id, name, symbol, confidence_threshold, position_size, portfolio_id) ==
    [id |-> id,
     name |-> name,
     symbol |-> symbol,
     is_active |-> TRUE,
     alpha_mean |-> RatInt(0),
     alpha_std |-> Sqrt(RatInt(1)),
     beta_mean |-> RatInt(0),
     beta_std |-> Sqrt(RatInt(1)),
     sigma_mean |-> Sqrt(RatInt(1)),
     confidence_threshold |-> confidence_threshold,
     position_size |-> position_size,
     total_trades |-> 0,
     winning_trades |-> 0,
     portfolio_id |-> portfolio_id]

\* StrategyInsertOk without the foreign key on portfolio_id.
StrategyInsertUnchecked(name, symbol, portfolio_id) ==
    name # None /\ symbol # None /\ portfolio_id # None

\* The commit of a new TradingStrategy row succeeds.
StrategyInsertOk(name, symbol, portfolio_id) ==
    /\ name # None
    /\ symbol # None
    /\ portfolio_id # None
    /\ \E p \in portfolios : p.id = The(portfolio_id)

\* create_strategy keeping the row of a refused request whose columns are set.
create_strategy_unrolled(data) ==
    LET name == Get(data, "name")
        symbol == Get(data, "symbol")
        portfolio_id == Get(data, "portfolio_id")
        id == seq.strategy + 1
        row == StrategyRow(id, The(name), The(symbol),
                           GetOr(data, "confidence_threshold", Rat(6, 10)),
                           GetOr(data, "position_size", Rat(1, 10)),
                           The(portfolio_id))
    IN  IF StrategyInsertOk(name, symbol, portfolio_id)
        THEN /\ strategies' = strategies \cup {row}
             /\ seq' = [seq EXCEPT !.strategy = id]
             /\ last' = [op |-> "create_strategy", status |-> 201, success |-> TRUE,
                         id |-> id]
        ELSE /\ last' = [op |-> "create_strategy", status |-> 500, success |-> FALSE]
             /\ IF name # None /\ symbol # None /\ portfolio_id # None
                THEN /\ strategies' = strategies \cup {row}
                     /\ seq' = [seq EXCEPT !.strategy = id]
                ELSE UNCHANGED <<strategies, seq>>

create_strategy(data) ==
    LET name == Get(data, "name")
        symbol == Get(data, "symbol")
        portfolio_id == Get(data, "portfolio_id")
        id == seq.strategy + 1
    IN  IF StrategyInsertOk(name, symbol, portfolio_id)
        THEN /\ strategies' = strategies \cup
                    {StrategyRow(id, The(name), The(symbol),
                                 GetOr(data, "confidence_threshold", Rat(6, 10)),
                                 GetOr(data, "position_size", Rat(1, 10)),
                                 The(portfolio_id))}
             /\ seq' = [seq EXCEPT !.strategy = id]
             /\ last' = [op |-> "create_strategy", status |-> 201, success |-> TRUE,
                         id |-> id]
        ELSE /\ last' = [op |-> "create_strategy", status |-> 500, success |-> FALSE]
             /\ UNCHANGED <<strategies, seq>>

CreateStrategy(data) ==
    /\ seq.strategy < MaxStrategies
    /\ create_strategy(data)
    /\ UNCHANGED <<portfolios, investments, trades, marketData, env, today>>

\* TradingStrategy.calculate_win_rate: 0.0 without trades, else the share of
\* winning trades times 100, here as the exact quotient.
calculate_win_rate(strategy) ==
    IF strategy.total_trades = 0 THEN RatInt(0)
    ELSE RatMul(Rat(strategy.winning_trades, strategy.total_trades), RatInt(100))

\* TradingStrategy.to_dict, without the texts and the timestamps.
StrategyDict(strategy) ==
    [id |-> strategy.id,
     symbol |-> strategy.symbol,
     is_active |-> strategy.is_active,
     alpha_mean |-> strategy.alpha_mean,
     beta_mean |-> strategy.beta_mean,
     sigma_mean |-> strategy.sigma_mean,
     confidence_threshold |-> strategy.confidence_threshold,
     position_size |-> strategy.position_size,
     total_trades |-> strategy.total_trades,
     winning_trades |-> strategy.winning_trades,
     win_rate |-> calculate_win_rate(strategy),
     portfolio_id |-> strategy.portfolio_id]

\* GET /api/strategies: the listing built from TradingStrategy.query.all().
GetStrategies ==
    /\ last' = [op |-> "get_strategies", status |-> 200, success |-> TRUE,
                strategies |-> {StrategyDict(st) : st \in strategies}]
    /\ UNCHANGED <<portfolios, investments, strategies, trades, marketData, seq, env, today>>

\* An Investment row added through the model class (no route creates one):
\* portfolio_id is NOT NULL and a foreign key.
AddInvestment(portfolio_id, current_value) ==
    /\ seq.investment < MaxInvestments
    /\ \E p \in portfolios : p.id = portfolio_id
    /\ investments' = investments \cup
           {[id |-> seq.investment + 1,
             portfolio_id |-> portfolio_id,
             current_value |-> current_value]}
    /\ seq' = [seq EXCEPT !.investment = seq.investment + 1]
    /\ last' = [op |-> "add_investment"]
    /\ UNCHANGED <<portfolios, strategies, trades, marketData, env, today>>

\* CascadeDelete without the cascade on TradingStrategy.trades.
CascadeDeleteKeepTrades(portfolio_id) ==
    [portfolios |-> {p \in portfolios : p.id # portfolio_id},
     investments |-> {i \in investments : i.portfolio_id # portfolio_id},
     strategies |-> {s \in strategies : s.portfolio_id # portfolio_id},
     trades |-> trades]

\* What db.session.delete(portfolio) removes: the portfolio, its investments
\* and its strategies (cascade='all, delete-orphan' on Portfolio), and the
\* trades of those strategies (the same cascade on TradingStrategy.trades).
CascadeDelete(portfolio_id) ==
    LET gone == {s \in strategies : s.portfolio_id = portfolio_id}
    IN  [portfolios |-> {p \in portfolios : p.id # portfolio_id},
         investments |-> {i \in investments : i.portfolio_id # portfolio_id},
         strategies |-> strategies \ gone,
         trades |-> {t \in trades : \A s \in gone : t.strategy_id # s.id}]

\* The foreign keys hold in the tables `db`.
ForeignKeysOk(db) ==
    /\ \A i \in db.investments : \E p \in db.portfolios : p.id = i.portfolio_id
    /\ \A s \in db.strategies : \E p \in db.portfolios : p.id = s.portfolio_id
    /\ \A t \in db.trades :
          /\ \E p \in db.portfolios : p.id = t.portfolio_id
          /\ \E s \in db.strategies : s.id = t.strategy_id

\* Deleting a portfolio through the session.  The commit raises, and nothing
\* is deleted, when a row left behind would still reference a deleted one.
DeletePortfolio(portfolio_id) ==
    LET db == CascadeDelete(portfolio_id)
    IN  /\ \E p \in portfolios : p.id = portfolio_id
        /\ IF ForeignKeysOk(db)
           THEN /\ portfolios' = db.portfolios
                /\ investments' = db.investments
                /\ strategies' = db.strategies
                /\ trades' = db.trades
                /\ last' = [op |-> "delete_portfolio", success |-> TRUE,
                            portfolio_id |-> portfolio_id]
           ELSE /\ last' = [op |-> "delete_portfolio", success |-> FALSE,
                            portfolio_id |-> portfolio_id]
                /\ UNCHANGED <<portfolios, investments, strategies, trades>>
        /\ UNCHANGED <<marketData, seq, env, today>>

\* A strategy switched off through the model class (no route sets
\* is_active).
Deactivate(strategy_id) ==
    /\ \E st \in strategies :
          /\ st.id = strategy_id
          /\ st.is_active
          /\ strategies' = (strategies \ {st}) \cup {[st EXCEPT !.is_active = FALSE]}
    /\ last' = [op |-> "deactivate", strategy_id |-> strategy_id]
    /\ UNCHANGED <<portfolios, investments, trades, marketData, seq, env, today>>

\* The process is started with another environment (load_dotenv, os.getenv).
Restart(api_key, secret_key) ==
    /\ env' = [api_key |-> api_key, secret_key |-> secret_key]
    /\ env' # env
    /\ last' = [op |-> "restart"]
    /\ UNCHANGED <<portfolios, investments, strategies, trades, marketData, seq, today>>

\* Midnight passes.
Tick ==
    /\ today < MaxDay
    /\ today' = today + 1
    /\ last' = [op |-> "tick"]
    /\ UNCHANGED <<portfolios, investments, strategies, trades, marketData, seq, env>>

\* ---------------------------------------------------------------- market data
\* The seeded price walk of create_sample_data (np.random.seed(42)), day i of
\* 0..days-1: the same fixed, unsteady series on every call, starting at 150
\* for AAPL and at 300 for MSFT.  The generator's numbers are replaced by a
\* fixed series of the same kind.
SampleClose(symbol, i) ==
    IF symbol = "AAPL" THEN 150 + ((7 * i) % 5) ELSE 300 + ((3 * i) % 5)

\* The rows create_sample_data adds for one symbol: day i is dated
\* now - (days - i) days, so the last row is dated yesterday.
SampleRows(symbol) ==
    [k \in 1..SampleDays |->
        [symbol |-> symbol,
         date |-> today - (SampleDays - (k - 1)),
         time |-> "request",
         close_price |-> SampleClose(symbol, k - 1)]]

\* POST /api/sample-data: a portfolio, two strategies and SampleDays rows of
\* market data for each of AAPL and MSFT, in three commits.
CreateSampleData(micro) ==
    LET pid == seq.portfolio + 1
        sid == seq.strategy + 1
    IN  /\ seq.portfolio < MaxPortfolios
        /\ seq.strategy + 2 <= MaxStrategies
        /\ Len(marketData) < MaxBatches
        /\ portfolios' = portfolios \cup
               {[id |-> pid,
                 name |-> "AI Trading Portfolio",
                 description |-> "Portfolio for testing Bayesian trading strategies",
                 created_at |-> StoreDateTime(utcnow(micro))]}
        /\ strategies' = strategies \cup
               {StrategyRow(sid, "AAPL Statistical Strategy", "AAPL",
                            Rat(5, 10), Rat(10, 100), pid),
                StrategyRow(sid + 1, "MSFT Statistical Strategy", "MSFT",
                            Rat(6, 10), Rat(15, 100), pid)}
        /\ marketData' = Append(marketData, SampleRows("AAPL") \o SampleRows("MSFT"))
        /\ seq' = [seq EXCEPT !.portfolio = pid, !.strategy = sid + 1]
        /\ last' = [op |-> "create_sample_data", status |-> 200, success |-> TRUE,
                    portfolio_id |-> pid]
        /\ UNCHANGED <<investments, trades, env, today>>

\* The daily bars the brokerage answers with: k bars ending today, closing
\* prices rising, falling, flat or alternating from 150.
LiveBars(symbol, bars) ==
    [i \in 1..bars.k |->
        [symbol |-> symbol,
         date |-> today - (bars.k - i),
         time |-> "session",
         close_price |-> CASE bars.pattern = "up" -> 150 + i
                           [] bars.pattern = "down" -> 150 - i
                           [] bars.pattern = "choppy" -> 150 + (i % 2)
                           [] OTHER -> 150]]

Closes(rows) == [i \in 1..Len(rows) |-> rows[i].close_price]
Reverse(s) == [i \in 1..Len(s) |-> s[Len(s) + 1 - i]]

RECURSIVE DescBetween(_, _, _, _)
\* `rows` from date hi down to date lo, by halving the range; rows of one
\* date in the order `tie`.
DescBetween(hi, lo, rows, tie) ==
    IF hi < lo THEN <<>>
    ELSE IF hi = lo
    THEN LET group == SelectSeq(rows, LAMBDA r : r.date = hi)
         IN  IF tie = "asc" THEN group ELSE Reverse(group)
    ELSE LET mid == (lo + hi) \div 2
         IN  DescBetween(hi, mid + 1, rows, tie) \o DescBetween(mid, lo, rows, tie)

\* MarketData.query.filter_by(symbol=symbol).order_by(MarketData.date.desc())
\* over the batches md.  SQL leaves the order of rows of one date open; `tie`
\* picks one of two outcomes: by ascending or by descending id.
QueryDesc(md, symbol, tie) ==
    LET rows == SelectSeq(Flatten(md), LAMBDA r : r.symbol = symbol)
        dates == {rows[i].date : i \in 1..Len(rows)}
        lo == CHOOSE d \in dates : \A e \in dates : d <= e
        hi == CHOOSE d \in dates : \A e \in dates : d >= e
    IN  IF rows = <<>> THEN <<>> ELSE DescBetween(hi, lo, rows, tie)

\* Limit keeping the end of the query's rows.
LimitFromEnd(q, n) ==
    SubSeq(q, IF Len(q) < n THEN 1 ELSE Len(q) - n + 1, Len(q))

\* .limit(n): the first n rows of the query.
Limit(q, n) == SubSeq(q, 1, IF Len(q) < n THEN Len(q) ELSE n)

\* The text of the exceptions the log messages end with.
BrokerageError == "brokerage request failed"
CommitError == "commit failed"
DivisionError == "float division by zero"
ClientError == "client construction failed"

\* HasClient testing the key alone.
HasClientKeyOnly == env.api_key

\* self.data_client is set: both credentials are configured.
HasClient == env.api_key /\ env.secret_key

\* get_market_data answering with the fetched bars although storing them
\* failed.
get_market_data_unsaved(symbol, days, io) ==
    LET live(bars) ==
            [data |-> Some(Closes(bars)),
             stored |-> IF io.fault = "store_bars" THEN <<>> ELSE bars,
             source |-> "live", rows |-> bars,
             logged |-> IF io.fault = "store_bars"
                        THEN {<<"Error getting market data", CommitError>>}
                        ELSE {}]
        stored(q) ==
            IF q = <<>>
            THEN [data |-> None, stored |-> <<>>, source |-> "stored",
                  rows |-> <<>>,
                  logged |-> {<<"No market data found for symbol", symbol>>}]
            ELSE [data |-> Some(Closes(Reverse(q))), stored |-> <<>>,
                  source |-> "stored", rows |-> Reverse(q), logged |-> {}]
    IN  IF HasClient
        THEN IF io.fault = "fetch"
             THEN [data |-> None, stored |-> <<>>, source |-> "live",
                   rows |-> <<>>,
                   logged |-> {<<"Error getting market data", BrokerageError>>}]
             ELSE live(LiveBars(symbol, io.bars))
        ELSE stored(Limit(QueryDesc(marketData, symbol, io.tie), days))

\* get_market_data(symbol, days).  io.fault = "fetch": get_stock_bars raises;
\* "store_bars": the commit of the fetched rows raises.  Returns the frame
\* (its closing prices) or None, the rows the frame was built from, the rows
\* it committed, and what it logged.
get_market_data(symbol, days, io) ==
    LET live(bars) ==
            [data |-> Some(Closes(bars)), stored |-> bars, source |-> "live",
             rows |-> bars, logged |-> {}]
        stored(q) ==
            IF q = <<>>
            THEN [data |-> None, stored |-> <<>>, source |-> "stored",
                  rows |-> <<>>,
                  logged |-> {<<"No market data found for symbol", symbol>>}]
            ELSE [data |-> Some(Closes(Reverse(q))), stored |-> <<>>,
                  source |-> "stored", rows |-> Reverse(q), logged |-> {}]
    IN  IF HasClient
        THEN IF io.fault \in {"fetch", "store_bars"}
             THEN [data |-> None, stored |-> <<>>, source |-> "live",
                   rows |-> <<>>,
                   logged |-> {<<"Error getting market data",
                                 IF io.fault = "fetch" THEN BrokerageError
                                 ELSE CommitError>>}]
             ELSE live(LiveBars(symbol, io.bars))
        ELSE stored(Limit(QueryDesc(marketData, symbol, io.tie), days))

\* fit_statistical_model with the length test off by one: nine returns fit.
fit_statistical_model_short(returns, io) ==
    LET fitted(m) == [model |-> Some(m), update |-> Some(m), logged |-> {}]
    IN  IF Len(returns) < MinReturns - 1
        THEN [model |-> None, update |-> None, logged |-> {}]
        ELSE IF io.fault = "store_fit"
        THEN [model |-> None, update |-> None,
              logged |-> {<<"Error fitting statistical model", CommitError>>}]
        ELSE fitted(LinRegress(returns))

\* fit_statistical_model(returns, strategy_id) for an existing strategy.
\* Returns the model or None, the parameters it committed to the strategy
\* (None: the strategy is left as it was) and what it logged.
\* io.fault = "store_fit": the commit of the parameters raises.
fit_statistical_model(returns, io) ==
    LET fitted(m) == [model |-> Some(m), update |-> Some(m), logged |-> {}]
    IN  IF Len(returns) < MinReturns
        THEN [model |-> None, update |-> None, logged |-> {}]
        ELSE IF io.fault = "store_fit"
        THEN [model |-> None, update |-> None,
              logged |-> {<<"Error fitting statistical model", CommitError>>}]
        ELSE fitted(LinRegress(returns))

\* SignalAction with the sign tests made weak: a zero prediction buys.
SignalActionWeak(predicted_return, confidence, confidence_threshold) ==
    IF RatSign(predicted_return) >= 0 /\ StdLess(confidence, confidence_threshold)
    THEN "buy"
    ELSE IF RatSign(predicted_return) < 0 /\ StdLess(confidence, confidence_threshold)
    THEN "sell"
    ELSE "hold"

\* The 'Simple trading logic' comparison of generate_trading_signal.
SignalAction(predicted_return, confidence, confidence_threshold) ==
    IF RatSign(predicted_return) > 0 /\ StdLess(confidence, confidence_threshold)
    THEN "buy"
    ELSE IF RatSign(predicted_return) < 0 /\ StdLess(confidence, confidence_threshold)
    THEN "sell"
    ELSE "hold"

\* generate_trading_signal(strategy, symbol): the signal or None, with the
\* rows and parameters committed on the way, the number of returns (None when
\* there were none) and what was logged.
generate_trading_signal(strategy, symbol, io) ==
    LET nothing(market_data) ==
            [signal |-> None, stored |-> market_data.stored, update |-> None,
             source |-> market_data.source, n_returns |-> None,
             logged |-> market_data.logged]
        decide(market_data, next_day, fit, p) ==
            [nothing(market_data) EXCEPT
                !.n_returns = Some(next_day),
                !.update = fit.update,
                !.signal = Some([symbol |-> symbol,
                                 predicted_return |-> The(p.predicted_return),
                                 confidence |-> The(p.confidence),
                                 action |-> SignalAction(The(p.predicted_return),
                                                         The(p.confidence),
                                                         strategy.confidence_threshold)])]
        predict(market_data, next_day, fit) ==
            IF fit.model = None
            THEN [nothing(market_data) EXCEPT
                     !.n_returns = Some(next_day),
                     !.logged = market_data.logged \cup fit.logged]
            ELSE decide(market_data, next_day, fit,
                        predict_next_return(fit.model, next_day))
        fit_returns(market_data, returns) ==
            IF returns = None THEN nothing(market_data)
            ELSE predict(market_data, Len(The(returns)),
                         fit_statistical_model(The(returns), io))
        from(market_data) ==
            IF market_data.data = None THEN nothing(market_data)
            ELSE fit_returns(market_data, calculate_returns(market_data.data))
    IN  from(get_market_data(symbol, LookbackDays, io))

\* CurrentPrice taking the stored row that is last by descending date.
CurrentPriceOldest(md, symbol, io) ==
    LET first(q) == IF q = <<>> THEN DefaultPrice ELSE q[Len(q)].close_price
    IN  IF HasClient /\ io.latest # None THEN The(io.latest)
        ELSE first(QueryDesc(md, symbol, io.tie))

\* The price of execute_paper_trade: the brokerage's latest trade price when
\* there is a trading client and the lookup succeeds (io.latest is not None),
\* else the close of the first stored row by descending date, else 100.0.
CurrentPrice(md, symbol, io) ==
    LET first(q) == IF q = <<>> THEN DefaultPrice ELSE Head(q).close_price
    IN  IF HasClient /\ io.latest # None THEN The(io.latest)
        ELSE first(QueryDesc(md, symbol, io.tie))

\* The warning of execute_paper_trade when the latest trade lookup raises.
PriceWarning(symbol, io) ==
    IF HasClient /\ io.latest = None
    THEN {<<"Could not get latest trade for", symbol>>} ELSE {}

\* CountTrade where only a buy of a rising price is a winning trade.
CountTradeBuysOnly(strategy, signal) ==
    [strategy EXCEPT
        !.total_trades = @ + 1,
        !.winning_trades =
            IF signal.action = "buy" /\ RatSign(signal.predicted_return) > 0
            THEN @ + 1 ELSE @]

\* The strategy's counters after one more trade.
CountTrade(strategy, signal) ==
    [strategy EXCEPT
        !.total_trades = @ + 1,
        !.winning_trades =
            IF \/ signal.action = "buy" /\ RatSign(signal.predicted_return) > 0
               \/ signal.action = "sell" /\ RatSign(signal.predicted_return) < 0
            THEN @ + 1 ELSE @]

\* TradeRow sized without the division by the price.
TradeRowUnpriced(id, strategy, signal, current_price) ==
    [id |-> id,
     symbol |-> signal.symbol,
     side |-> signal.action,
     quantity |-> RatMul(RatInt(calculate_total_value(strategy.portfolio_id)),
                         strategy.position_size),
     price |-> current_price,
     status |-> "filled",
     predicted_return |-> signal.predicted_return,
     confidence |-> signal.confidence,
     strategy_id |-> strategy.id,
     portfolio_id |-> strategy.portfolio_id]

\* TradeRow left at the column default of status.
TradeRowPending(id, strategy, signal, current_price) ==
    [id |-> id,
     symbol |-> signal.symbol,
     side |-> signal.action,
     quantity |-> RatMul(RatMul(RatInt(calculate_total_value(strategy.portfolio_id)),
                                strategy.position_size),
                         Rat(1, current_price)),
     price |-> current_price,
     status |-> "pending",
     predicted_return |-> signal.predicted_return,
     confidence |-> signal.confidence,
     strategy_id |-> strategy.id,
     portfolio_id |-> strategy.portfolio_id]

\* The Trade row execute_paper_trade builds.
TradeRow(id, strategy, signal, current_price) ==
    LET portfolio_value == calculate_total_value(strategy.portfolio_id)
        position_value == RatMul(RatInt(portfolio_value), strategy.position_size)
        quantity == RatMul(position_value, Rat(1, current_price))
    IN  [id |-> id,
         symbol |-> signal.symbol,
         side |-> signal.action,
         quantity |-> quantity,
         price |-> current_price,
         status |-> "filled",
         predicted_return |-> signal.predicted_return,
         confidence |-> signal.confidence,
         strategy_id |-> strategy.id,
         portfolio_id |-> strategy.portfolio_id]

\* execute_paper_trade(strategy, signal) over the market data md: the trade it
\* returns (or None), the Trade row it committed (or None), the strategy as
\* it committed it, and what it logged.  A price of 0 raises at the division;
\* io.fault = "store_trade": the commit of the trade raises; "store_stats":
\* the commit of the counters raises, after the trade was committed.
execute_paper_trade(strategy, signal, md, io) ==
    LET nothing == [trade |-> None, row |-> None, strategy |-> strategy, logged |-> {}]
        failed(error) ==
            [nothing EXCEPT
                !.logged = PriceWarning(The(signal).symbol, io)
                              \cup {<<"Error executing paper trade", error>>}]
        commit(row) ==
            IF io.fault = "store_trade" THEN failed(CommitError)
            ELSE IF io.fault = "store_stats"
            THEN [failed(CommitError) EXCEPT !.row = Some(row)]
            ELSE [trade |-> Some(row), row |-> Some(row),
                  strategy |-> CountTrade(strategy, The(signal)),
                  logged |-> PriceWarning(The(signal).symbol, io)]
        size(current_price) ==
            IF current_price = 0 THEN failed(DivisionError)
            ELSE commit(TradeRow(seq.trade + 1, strategy, The(signal), current_price))
    IN  IF signal = None \/ The(signal).action = "hold" THEN nothing
        ELSE size(CurrentPrice(md, The(signal).symbol, io))

\* WithParameters leaving beta_std at its old value.
WithParametersButBetaStd(strategy, m) ==
    [strategy EXCEPT !.alpha_mean = m.intercept,
                     !.alpha_std = m.std_err,
                     !.beta_mean = m.slope,
                     !.sigma_mean = m.std_return]

\* The strategy with the regression parameters fit_statistical_model stores.
WithParameters(strategy, m) ==
    [strategy EXCEPT !.alpha_mean = m.intercept,
                     !.alpha_std = m.std_err,
                     !.beta_mean = m.slope,
                     !.beta_std = m.std_err,
                     !.sigma_mean = m.std_return]

\* Trade.to_dict, as far as the row is modelled.
TradeDict(t) ==
    [id |-> t.id, symbol |-> t.symbol, side |-> t.side, quantity |-> t.quantity,
     price |-> t.price, status |-> t.status,
     predicted_return |-> t.predicted_return, confidence |-> t.confidence,
     strategy_id |-> t.strategy_id, portfolio_id |-> t.portfolio_id]

\* run_strategy without the test of is_active.
run_strategy_inactive(strategy_id, io) ==
    LET found == {s \in strategies : s.id = strategy_id}
        idle == [result |-> None, marketData |-> marketData, strategies |-> strategies,
                 trades |-> trades, logged |-> {}, source |-> "none",
                 n_returns |-> None]
        answer(g, md, trade, strategy, row, logged) ==
            [result |-> Some([signal |-> The(g.signal), trade |-> trade]),
             marketData |-> md,
             strategies |-> (strategies \ found) \cup {strategy},
             trades |-> trades \cup row,
             logged |-> logged,
             source |-> g.source,
             n_returns |-> g.n_returns]
        traded(g, md, e) ==
            answer(g, md,
                   IF e.trade = None THEN None ELSE Some(TradeDict(The(e.trade))),
                   e.strategy, e.row, g.logged \cup e.logged)
        signalled(g, md, fitted) ==
            IF g.signal = None
            THEN [idle EXCEPT !.marketData = md, !.logged = g.logged,
                              !.source = g.source, !.n_returns = g.n_returns]
            ELSE IF The(g.signal).action # "hold"
            THEN traded(g, md, execute_paper_trade(fitted, g.signal, md, io))
            ELSE answer(g, md, None, fitted, None, g.logged)
        generated(strategy, g) ==
            signalled(g,
                      IF g.stored = <<>> THEN marketData
                      ELSE Append(marketData, g.stored),
                      IF g.update = None THEN strategy
                      ELSE WithParameters(strategy, The(g.update)))
        run(strategy) ==
            generated(strategy,
                      generate_trading_signal(strategy, strategy.symbol, io))
    IN  IF found = {} THEN idle ELSE run(The(found))

\* run_strategy counting a 'hold' signal as a trade of the strategy.
run_strategy_counting_hold(strategy_id, io) ==
    LET found == {s \in strategies : s.id = strategy_id}
        idle == [result |-> None, marketData |-> marketData, strategies |-> strategies,
                 trades |-> trades, logged |-> {}, source |-> "none",
                 n_returns |-> None]
        answer(g, md, trade, strategy, row, logged) ==
            [result |-> Some([signal |-> The(g.signal), trade |-> trade]),
             marketData |-> md,
             strategies |-> (strategies \ found) \cup {strategy},
             trades |-> trades \cup row,
             logged |-> logged,
             source |-> g.source,
             n_returns |-> g.n_returns]
        traded(g, md, e) ==
            answer(g, md,
                   IF e.trade = None THEN None ELSE Some(TradeDict(The(e.trade))),
                   e.strategy, e.row, g.logged \cup e.logged)
        signalled(g, md, fitted) ==
            IF g.signal = None
            THEN [idle EXCEPT !.marketData = md, !.logged = g.logged,
                              !.source = g.source, !.n_returns = g.n_returns]
            ELSE IF The(g.signal).action # "hold"
            THEN traded(g, md, execute_paper_trade(fitted, g.signal, md, io))
            ELSE answer(g, md, None, CountTrade(fitted, The(g.signal)), None,
                        g.logged)
        generated(strategy, g) ==
            signalled(g,
                      IF g.stored = <<>> THEN marketData
                      ELSE Append(marketData, g.stored),
                      IF g.update = None THEN strategy
                      ELSE WithParameters(strategy, The(g.update)))
        run(strategy) ==
            IF ~strategy.is_active THEN idle
            ELSE generated(strategy,
                           generate_trading_signal(strategy, strategy.symbol, io))
    IN  IF found = {} THEN idle ELSE run(The(found))

\* BayesianTradingService.run_strategy(strategy_id): what it returns (None or
\* {'signal', 'trade'}) and the tables as it leaves them.
run_strategy(strategy_id, io) ==
    LET found == {s \in strategies : s.id = strategy_id}
        idle == [result |-> None, marketData |-> marketData, strategies |-> strategies,
                 trades |-> trades, logged |-> {}, source |-> "none",
                 n_returns |-> None]
        answer(g, md, trade, strategy, row, logged) ==
            [result |-> Some([signal |-> The(g.signal), trade |-> trade]),
             marketData |-> md,
             strategies |-> (strategies \ found) \cup {strategy},
             trades |-> trades \cup row,
             logged |-> logged,
             source |-> g.source,
             n_returns |-> g.n_returns]
        traded(g, md, e) ==
            answer(g, md,
                   IF e.trade = None THEN None ELSE Some(TradeDict(The(e.trade))),
                   e.strategy, e.row, g.logged \cup e.logged)
        signalled(g, md, fitted) ==
            IF g.signal = None
            THEN [idle EXCEPT !.marketData = md, !.logged = g.logged,
                              !.source = g.source, !.n_returns = g.n_returns]
            ELSE IF The(g.signal).action # "hold"
            THEN traded(g, md, execute_paper_trade(fitted, g.signal, md, io))
            ELSE answer(g, md, None, fitted, None, g.logged)
        generated(strategy, g) ==
            signalled(g,
                      IF g.stored = <<>> THEN marketData
                      ELSE Append(marketData, g.stored),
                      IF g.update = None THEN strategy
                      ELSE WithParameters(strategy, The(g.update)))
        run(strategy) ==
            IF ~strategy.is_active THEN idle
            ELSE generated(strategy,
                           generate_trading_signal(strategy, strategy.symbol, io))
    IN  IF found = {} THEN idle ELSE run(The(found))

\* io.fault = "client": building the brokerage clients in
\* BayesianTradingService() raises; they are built with both credentials only.
ConstructionFails(io) == HasClient /\ io.fault = "client"

\* The route when the exception escaped: no strategy was run.
Unserved ==
    [result |-> None, marketData |-> marketData, strategies |-> strategies,
     trades |-> trades, logged |-> {<<"Error running strategy", ClientError>>},
     source |-> "none", n_returns |-> None]

\* RunStatus answering a missing result like an escaped exception.
RunStatusUnfound(raised, result) ==
    IF raised \/ result = None THEN 500 ELSE 200

\* The HTTP status of the run route: 500 when an exception escaped, 404 when
\* run_strategy returned None, else jsonify's 200.
RunStatus(raised, result) ==
    IF raised THEN 500 ELSE IF result = None THEN 404 ELSE 200

\* The 'error' of the JSON payload, None when there is none.
RunError(raised, result) ==
    IF raised THEN Some(ClientError)
    ELSE IF result = None THEN Some("Strategy not found or inactive")
    ELSE None

\* POST /api/strategies/<id>/run: 404 when run_strategy returns None.
RunStrategy(strategy_id, io) ==
    \E r \in {IF ConstructionFails(io) THEN Unserved
              ELSE run_strategy(strategy_id, io)} :
        /\ seq.trade < MaxTrades
        /\ HasClient => Len(marketData) < MaxBatches
        /\ marketData' = r.marketData
        /\ strategies' = r.strategies
        /\ trades' = r.trades
        /\ seq' = [seq EXCEPT !.trade = IF r.trades = trades THEN @ ELSE @ + 1]
        /\ last' = [op |-> "run_strategy",
                    strategy_id |-> strategy_id,
                    status |-> RunStatus(ConstructionFails(io), r.result),
                    success |-> r.result # None,
                    error |-> RunError(ConstructionFails(io), r.result),
                    result |-> r.result,
                    logged |-> r.logged,
                    source |-> r.source,
                    n_returns |-> r.n_returns]
        /\ UNCHANGED <<portfolios, investments, env, today>>

\* The service's execute_paper_trade called for a stored strategy and a
\* signal.  quote is what get_latest_trade answered: None when it raised or
\* there is no trading client to ask.
ExecutePaperTrade(strategy_id, signal, io) ==
    \E st \in strategies :
        /\ st.id = strategy_id
        /\ seq.trade < MaxTrades
        /\ \E e \in {execute_paper_trade(st, signal, marketData, io)} :
              /\ trades' = trades \cup e.row
              /\ strategies' = (strategies \ {st}) \cup {e.strategy}
              /\ seq' = [seq EXCEPT !.trade = IF e.row = None THEN @ ELSE @ + 1]
              /\ last' = [op |-> "execute_paper_trade",
                          strategy_id |-> strategy_id,
                          signal |-> signal,
                          quote |-> IF HasClient THEN io.latest ELSE None,
                          trade |-> e.trade,
                          logged |-> e.logged]
        /\ UNCHANGED <<portfolios, investments, marketData, env, today>>

\* The service's get_market_data called for a symbol and a number of days.
GetMarketData(symbol, days, io) ==
    \E r \in {get_market_data(symbol, days, io)} :
        /\ r.stored # <<>> => Len(marketData) < MaxBatches
        /\ marketData' = IF r.stored = <<>> THEN marketData
                         ELSE Append(marketData, r.stored)
        /\ last' = [op |-> "get_market_data", symbol |-> symbol, days |-> days,
                    data |-> r.data, rows |-> r.rows, source |-> r.source,
                    logged |-> r.logged]
        /\ UNCHANGED <<portfolios, investments, strategies, trades, seq, env, today>>

\* The service's calculate_returns called on a price frame.
CalculateReturns(price_data) ==
    /\ last' = [op |-> "calculate_returns", price_data |-> price_data,
                returns |-> calculate_returns(price_data)]
    /\ UNCHANGED <<portfolios, investments, strategies, trades, marketData, seq,
                   env, today>>

\* The service's fit_statistical_model called on a return array, without a
\* strategy id: nothing is stored.
FitStatisticalModel(returns) ==
    /\ last' = [op |-> "fit_statistical_model", returns |-> returns,
                model |-> fit_statistical_model(returns, [fault |-> "none"]).model]
    /\ UNCHANGED <<portfolios, investments, strategies, trades, marketData, seq,
                   env, today>>

\* ------------------------------------------------------------------- inputs
\* Request bodies of POST /api/portfolios.
PortfolioRequests ==
    {[name |-> "Growth"],
     [name |-> "Growth", description |-> "Core holdings"],
     [description |-> "No name"]}

\* Microseconds of the clock when a row's created_at default is taken.
Micros == {0, 400000, 600000}

\* Request bodies of POST /api/strategies: portfolio_id is an existing id, an
\* id that was never given out, or missing.
StrategyRequests ==
    {[name |-> "Trend", symbol |-> s, portfolio_id |-> p] :
        s \in Symbols, p \in 1..(MaxPortfolios + 1)}
    \cup {[name |-> "Trend", symbol |-> "AAPL"],
          [name |-> "Trend", portfolio_id |-> 1],
          [name |-> "Trend", symbol |-> "AAPL", portfolio_id |-> 1,
           confidence_threshold |-> RatInt(0)],
          [name |-> "Trend", symbol |-> "AAPL", portfolio_id |-> 1,
           confidence_threshold |-> RatInt(10), position_size |-> Rat(1, 4)]}

InvestmentValues == {1000, 2500}

\* What the brokerage and the database do during one run of a strategy.
Faults == {"none", "fetch", "store_bars", "store_fit", "store_trade", "store_stats"}
\* The faults of the route around the service.
RouteFaults == {"client"}
BarCounts == {1, MinReturns, MinReturns + 1}
Patterns == {"up", "down", "flat", "choppy"}
LatestPrices == {None, Some(0), Some(150)}
TieOrders == {"asc", "desc"}

\* The inputs of one run that can differ in their outcome.  With a data
\* client: a failed fetch or store of the bars, whatever the bars; too few
\* bars for a fit, whatever their prices; enough bars of every pattern, priced
\* from the stored rows in either order of ties or by the brokerage, with a
\* fault after the fetch or none.  Without one: no bars are fetched and no
\* latest trade is looked up.
Run(bars, fault, latest, tie) ==
    [bars |-> bars, fault |-> fault, latest |-> latest, tie |-> tie]
ShortBars == {[k |-> k, pattern |-> "up"] : k \in BarCounts \ {MinReturns + 1}}
FitBars == {[k |-> MinReturns + 1, pattern |-> p] : p \in Patterns}
SomeBars == [k |-> MinReturns + 1, pattern |-> "up"]

RunInputs ==
    IF HasClient
    THEN {Run(SomeBars, f, None, "asc") : f \in {"fetch", "store_bars"}}
         \cup {Run(b, "none", None, "asc") : b \in ShortBars}
         \cup {Run(b, "none", None, t) : b \in FitBars, t \in TieOrders}
         \cup {Run(b, f, l, "asc") :
                  b \in FitBars, l \in LatestPrices \ {None},
                  f \in Faults \ {"fetch", "store_bars"}}
    ELSE {Run(SomeBars, f, None, t) :
            f \in Faults \ {"fetch", "store_bars"}, t \in TieOrders}

\* The numbers of days get_market_data is asked for.
QueryDays == {1, MinReturns + 1, LookbackDays}

\* Price frames for calculate_returns.
ClosePrices == {148, 150, 153}
PriceFrames ==
    {None} \cup {Some(f) : f \in UNION {[1..n -> ClosePrices] : n \in 0..MaxFrame}}

\* Return arrays one short of a fit and longer: a level, a trend, and swings
\* of period two and three.
ReturnArrays ==
    {[i \in 1..n |-> a + b * i + c * (i % 2) + d * (i % 3)] :
        n \in (MinReturns - 1)..(MinReturns + MaxFrame - 2),
        a \in {-1, 0}, b \in {-1, 0, 1}, c \in {0, 2}, d \in {0, -3}}

\* Signals for execute_paper_trade: none, a buy of either symbol, a hold.
PriceSignals ==
    {None}
    \cup {Some([symbol |-> s, predicted_return |-> RatInt(1),
                confidence |-> Sqrt(RatInt(0)), action |-> "buy"]) : s \in Symbols}
    \cup {Some([symbol |-> "AAPL", predicted_return |-> RatInt(-1),
                confidence |-> Sqrt(RatInt(0)), action |-> "hold"])}

Next ==
    \/ \E data \in PortfolioRequests, micro \in Micros : CreatePortfolio(data, micro)
    \/ GetPortfolios
    \/ \E data \in StrategyRequests : CreateStrategy(data)
    \/ GetStrategies
    \/ \E p \in portfolios, v \in InvestmentValues : AddInvestment(p.id, v)
    \/ \E p \in portfolios : DeletePortfolio(p.id)
    \/ \E micro \in Micros : CreateSampleData(micro)
    \/ \E id \in 1..(MaxStrategies + 1),
          io \in RunInputs \cup {Run(SomeBars, f, None, "asc") : f \in RouteFaults} :
          RunStrategy(id, io)
    \/ \E id \in 1..MaxStrategies : Deactivate(id)
    \/ \E symbol \in Symbols, days \in QueryDays, io \in RunInputs :
          GetMarketData(symbol, days, io)
    \/ \E price_data \in PriceFrames : CalculateReturns(price_data)
    \/ \E returns \in ReturnArrays : FitStatisticalModel(returns)
    \/ \E id \in 1..MaxStrategies, signal \in PriceSignals, io \in RunInputs :
          ExecutePaperTrade(id, signal, io)
    \/ \E k \in BOOLEAN, s \in BOOLEAN : Restart(k, s)
    \/ Tick

Spec == Init /\ [][Next]_vars

\* ---------------------------------------------------- slices of the system
\* Spec is too large to explore exhaustively.  Each slice below is Spec with
\* the inputs of some operations narrowed; a property is checked on the slice
\* that exercises the operations it is about.

\* The portfolio endpoints with every request body.
NextPortfolios ==
    \/ \E data \in PortfolioRequests, micro \in Micros : CreatePortfolio(data, micro)
    \/ GetPortfolios
    \/ \E p \in portfolios : DeletePortfolio(p.id)
    \/ Tick

SpecPortfolios == Init /\ [][NextPortfolios]_vars

\* The store: strategy requests with every kind of portfolio_id, investments,
\* deletes; strategies run on live, rising bars, so that trades exist.
StoreRun == [bars |-> [k |-> MinReturns + 1, pattern |-> "up"], fault |-> "none",
             latest |-> Some(150), tie |-> "asc"]

StoreStrategies ==
    {[name |-> "Trend", symbol |-> "AAPL", portfolio_id |-> p] :
        p \in 1..(MaxPortfolios + 1)}
    \cup {[name |-> "Trend", symbol |-> "AAPL"], [name |-> "Trend", portfolio_id |-> 1]}

\* Each portfolio is given at most one strategy.
NextStore ==
    \/ CreatePortfolio([name |-> "Growth"], 0)
    \/ \E data \in StoreStrategies :
          /\ "portfolio_id" \in DOMAIN data
                => \A st \in strategies : st.portfolio_id # data.portfolio_id
          /\ CreateStrategy(data)
    \/ \E p \in portfolios : AddInvestment(p.id, 1000)
    \/ \E p \in portfolios : DeletePortfolio(p.id)
    \/ \E id \in 1..MaxStrategies : RunStrategy(id, StoreRun)

\* Started with both credentials.
InitStore == Init /\ HasClient

SpecStore == InitStore /\ [][NextStore]_vars

\* The signal, with both credentials or with none: one portfolio, one
\* strategy for AAPL with the default, a zero or a wide confidence threshold,
\* sample data where the stored rows are read, and every outcome of a run.
\* The portfolio holds nothing, so that every trade is of quantity zero.
PipelineStrategies ==
    {[name |-> "Trend", symbol |-> "AAPL", portfolio_id |-> 1],
     [name |-> "Trend", symbol |-> "AAPL", portfolio_id |-> 1,
      confidence_threshold |-> RatInt(0)],
     [name |-> "Trend", symbol |-> "AAPL", portfolio_id |-> 1,
      confidence_threshold |-> RatInt(10), position_size |-> Rat(1, 4)]}

\* Without a data client the order of ties is left out: the sample data has
\* one row for each date.
SignalRuns ==
    IF HasClient THEN RunInputs
    ELSE {Run(SomeBars, f, None, "asc") : f \in Faults \ {"fetch", "store_bars"}}

NextSignal ==
    \/ portfolios = {} /\ CreatePortfolio([name |-> "Growth"], 0)
    \/ strategies = {} /\ (\E data \in PipelineStrategies : CreateStrategy(data))
    \/ ~HasClient /\ strategies # {} /\ CreateSampleData(0)
    \/ \E id \in 1..MaxStrategies, io \in SignalRuns : RunStrategy(id, io)

\* Started with both credentials or with none.
InitPipeline == Init /\ env.api_key = env.secret_key

SpecSignal == InitPipeline /\ [][NextSignal]_vars

\* The sizing of a trade: investments of two values, a strategy with the
\* default or a quarter position size, rising and falling bars priced by the
\* brokerage or from the stored rows, and the commit of the counters failing
\* or not.
SizingRuns ==
    IF HasClient
    THEN {Run([k |-> MinReturns + 1, pattern |-> p], f, l, "asc") :
            p \in {"up", "down"}, f \in {"none", "store_stats"},
            l \in {None, Some(150)}}
    ELSE {Run(SomeBars, f, None, "asc") : f \in {"none", "store_stats"}}

NextSizing ==
    \/ portfolios = {} /\ CreatePortfolio([name |-> "Growth"], 0)
    \/ \E v \in InvestmentValues : AddInvestment(1, v)
    \/ strategies = {}
       /\ \E data \in PipelineStrategies \ {[name |-> "Trend", symbol |-> "AAPL",
                                              portfolio_id |-> 1]} :
             CreateStrategy(data)
    \/ ~HasClient /\ strategies # {} /\ CreateSampleData(0)
    \/ \E id \in 1..MaxStrategies, io \in SizingRuns : RunStrategy(id, io)

SpecSizing == InitPipeline /\ [][NextSizing]_vars

\* The market data: sample data, live fetches of one bar or of a fortnight
\* that succeed or fail, and the passing of days.
MarketRuns ==
    IF HasClient
    THEN {Run([k |-> k, pattern |-> "up"], f, Some(150), "asc") :
            k \in {1, MinReturns + 1}, f \in {"none", "fetch", "store_bars"}}
    ELSE {Run(SomeBars, "none", None, t) : t \in TieOrders}

NextMarket ==
    \/ portfolios = {} /\ CreatePortfolio([name |-> "Growth"], 0)
    \/ strategies = {}
       /\ CreateStrategy([name |-> "Trend", symbol |-> "AAPL", portfolio_id |-> 1])
    \/ CreateSampleData(0)
    \/ \E id \in 1..MaxStrategies, io \in MarketRuns : RunStrategy(id, io)
    \/ Tick

SpecMarket == Init /\ [][NextMarket]_vars

\* The source of the data: the strategies of the sample data, run with each
\* set of credentials.
NextSource ==
    \/ CreateSampleData(0)
    \/ \E id \in 1..MaxStrategies, io \in MarketRuns : RunStrategy(id, io)
    \/ Tick

SpecSource == Init /\ [][NextSource]_vars

\* The run route: a strategy of the request and those of the sample data,
\* switched off or not, and runs of every id, one more than was ever given
\* out included, with too few bars, enough bars and each fault before the
\* signal.
RouteRuns ==
    IF HasClient
    THEN {Run([k |-> k, pattern |-> "up"], "none", Some(150), "asc") :
            k \in BarCounts}
         \cup {Run(SomeBars, f, Some(150), "asc") :
                  f \in {"fetch", "store_fit", "store_trade"} \cup RouteFaults}
    ELSE {Run(SomeBars, f, None, "asc") : f \in {"none", "store_fit"}}

NextRoute ==
    \/ portfolios = {} /\ CreatePortfolio([name |-> "Growth"], 0)
    \/ strategies = {}
       /\ CreateStrategy([name |-> "Trend", symbol |-> "AAPL", portfolio_id |-> 1,
                          confidence_threshold |-> RatInt(10)])
    \/ ~HasClient /\ strategies # {} /\ CreateSampleData(0)
    \/ \E id \in 1..MaxStrategies : Deactivate(id)
    \/ \E id \in 1..(MaxStrategies + 1), io \in RouteRuns : RunStrategy(id, io)

SpecRoute == InitPipeline /\ [][NextRoute]_vars

\* Reading the stored rows: sample data, bars stored while the credentials
\* were set, the credentials taken away, the passing of a day, and
\* get_market_data for each symbol over a day, a fortnight's returns or the
\* whole look-back.
\* With the credentials set the bars of AAPL are fetched, one or a dozen;
\* without them the stored rows of either symbol are read.
QueryCalls ==
    IF HasClient
    THEN {[symbol |-> "AAPL", days |-> LookbackDays,
           io |-> Run([k |-> k, pattern |-> "down"], "none", None, "asc")] :
            k \in {1, MinReturns + 1}}
    ELSE {[symbol |-> symbol, days |-> days,
           io |-> Run(SomeBars, "none", None, t)] :
            symbol \in Symbols, days \in QueryDays, t \in TieOrders}

NextQuery ==
    \/ CreateSampleData(0)
    \/ Restart(FALSE, FALSE)
    \/ Tick
    \/ \E c \in QueryCalls : GetMarketData(c.symbol, c.days, c.io)

SpecQuery == InitPipeline /\ [][NextQuery]_vars

\* The price of a trade: a strategy of a portfolio with an investment, single
\* bars of AAPL fetched at a higher or a lower price while the credentials
\* are set, the credentials taken away, the passing of a day, and
\* execute_paper_trade for a signal of a symbol with or without stored rows,
\* the brokerage answering with a price, with zero or not at all.
PriceFetches ==
    {Run([k |-> 1, pattern |-> p], "none", None, "asc") : p \in {"up", "down"}}

PriceCalls ==
    IF HasClient
    THEN {Run(SomeBars, "none", l, "asc") : l \in LatestPrices}
         \cup {Run(SomeBars, "none", None, "desc")}
    ELSE {Run(SomeBars, "none", None, t) : t \in TieOrders}

NextPrice ==
    \/ portfolios = {} /\ CreatePortfolio([name |-> "Growth"], 0)
    \/ investments = {} /\ AddInvestment(1, 1000)
    \/ investments # {} /\ strategies = {}
       /\ CreateStrategy([name |-> "Trend", symbol |-> "AAPL", portfolio_id |-> 1])
    \/ strategies # {} /\ HasClient
       /\ (\E io \in PriceFetches : GetMarketData("AAPL", LookbackDays, io))
    \/ strategies # {} /\ Restart(FALSE, FALSE)
    \/ strategies # {} /\ Tick
    \/ \E signal \in PriceSignals, io \in PriceCalls :
          ExecutePaperTrade(1, signal, io)

SpecPrice == InitPipeline /\ [][NextPrice]_vars

\* The functions of the service, each called on its own.
NextFunctions ==
    \/ \E price_data \in PriceFrames : CalculateReturns(price_data)
    \/ \E returns \in ReturnArrays : FitStatisticalModel(returns)

SpecFunctions == Init /\ [][NextFunctions]_vars

\* The two POST endpoints: portfolio requests with and without a name, and
\* strategy requests for an existing portfolio, for one that was never
\* created, and without a name, a symbol or a portfolio_id.
StrategyBodies ==
    {[name |-> "Trend", symbol |-> "AAPL", portfolio_id |-> p] :
        p \in 1..(MaxPortfolios + 1)}
    \cup {[symbol |-> "AAPL", portfolio_id |-> 1],
          [name |-> "Trend", portfolio_id |-> 1],
          [name |-> "Trend", symbol |-> "AAPL"]}

NextRequests ==
    \/ \E data \in PortfolioRequests : CreatePortfolio(data, 0)
    \/ \E data \in StrategyBodies : CreateStrategy(data)

SpecRequests == Init /\ [][NextRequests]_vars

\* The counters: one portfolio, a strategy of the request or those of the
\* sample data, runs on rising, falling and level prices with the commit of
\* the trade or of the counters failing or not, and the listing of the
\* strategies.
WinRuns ==
    IF HasClient
    THEN {Run([k |-> MinReturns + 1, pattern |-> p], f, Some(150), "asc") :
            p \in {"up", "down", "flat"},
            f \in {"none", "store_trade", "store_stats"}}
    ELSE {Run(SomeBars, f, None, "asc") : f \in {"none", "store_trade", "store_stats"}}

NextWins ==
    \/ portfolios = {} /\ CreatePortfolio([name |-> "Growth"], 0)
    \/ strategies = {} /\ (\E data \in PipelineStrategies : CreateStrategy(data))
    \/ ~HasClient /\ CreateSampleData(0)
    \/ \E id \in 1..MaxStrategies, io \in WinRuns : RunStrategy(id, io)
    \/ GetStrategies

SpecWins == InitPipeline /\ [][NextWins]_vars

\* The booking of a trade: a strategy of a portfolio with an investment, and
\* execute_paper_trade for no signal, a buy and a hold, priced by the
\* brokerage (with a price or with zero) or from the stored rows, each commit
\* failing or not; and runs of the strategy on rising and falling prices
\* with the same failures.
TradeCalls ==
    IF HasClient
    THEN {Run(SomeBars, f, l, "asc") :
            f \in {"none", "store_trade", "store_stats"}, l \in LatestPrices}
    ELSE {Run(SomeBars, f, None, "asc") : f \in {"none", "store_trade", "store_stats"}}

TradeRuns ==
    IF HasClient
    THEN {Run([k |-> MinReturns + 1, pattern |-> p], f, Some(150), "asc") :
            p \in {"up", "down"}, f \in {"none", "store_trade", "store_stats"}}
    ELSE {}

NextTrade ==
    \/ portfolios = {} /\ CreatePortfolio([name |-> "Growth"], 0)
    \/ investments = {} /\ AddInvestment(1, 1000)
    \/ investments # {} /\ strategies = {}
       /\ CreateStrategy([name |-> "Trend", symbol |-> "AAPL", portfolio_id |-> 1,
                          confidence_threshold |-> RatInt(10)])
    \/ \E signal \in PriceSignals, io \in TradeCalls :
          ExecutePaperTrade(1, signal, io)
    \/ \E io \in TradeRuns : RunStrategy(1, io)

SpecTrade == InitPipeline /\ [][NextTrade]_vars

\* ================================================================ properties
\* The last operation was a run of a strategy / one that returned a result.
Ran == last.op = "run_strategy"
Answered == Ran /\ last.result # None
LastSignal == The(last.result).signal
LastStrategy == The({s \in strategies : s.id = last.strategy_id})

\* C1: the action of a generated signal is 'buy' exactly when the predicted
\* return is above zero and the confidence (the standard deviation of the
\* returns, which the fit stores as sigma_mean) is below the strategy's
\* confidence_threshold, 'sell' exactly when the predicted return is below
\* zero and the confidence is below the threshold, and 'hold' otherwise.
C1_ActionBySignAndConfidence ==
    Answered =>
        LET sig == LastSignal
            thr == LastStrategy.confidence_threshold
            positive == sig.predicted_return.num > 0
            negative == sig.predicted_return.num < 0
            \* std < thr: thr > 0 and std^2 < thr^2
            confident == /\ thr.num > 0
                         /\ sig.confidence.sq.num * thr.den * thr.den
                                < thr.num * thr.num * sig.confidence.sq.den
        IN  /\ sig.confidence = LastStrategy.sigma_mean
            /\ sig.action \in {"buy", "sell", "hold"}
            /\ sig.action = "buy" <=> (positive /\ confident)
            /\ sig.action = "sell" <=> (negative /\ confident)
            /\ sig.action = "hold" <=> ~((positive \/ negative) /\ confident)

\* A prediction above zero is held because the confidence is not below a
\* positive threshold.
C1_Witness ==
    /\ Answered
    /\ LastSignal.action = "hold"
    /\ LastSignal.predicted_return.num > 0
    /\ LastStrategy.confidence_threshold.num > 0

\* Other cases of C1 that are reached.
C1_ReachBuy == Answered /\ LastSignal.action = "buy"
C1_ReachSell == Answered /\ LastSignal.action = "sell"
C1_ReachHoldZero ==
    /\ Answered
    /\ LastSignal.predicted_return.num = 0
    /\ LastSignal.confidence.sq.num = 0
    /\ LastStrategy.confidence_threshold.num > 0

\* C2: a run whose return array is shorter than MinReturns fits no model:
\* it returns None, changes no strategy (the regression parameters stay) and
\* records no trade.
C2_ShortReturnsNoModel ==
    [][(last'.op = "run_strategy" /\ last'.n_returns # None
        /\ The(last'.n_returns) < MinReturns)
       => (last'.result = None /\ strategies' = strategies /\ trades' = trades)]_vars

\* A run on MinReturns bars, one return short of a fit, that stored the bars.
C2_Witness ==
    /\ Ran
    /\ last.n_returns = Some(MinReturns - 1)
    /\ last.result = None
    /\ marketData # <<>>

\* The sum of current_value over a set of Investment rows.
RECURSIVE TotalOf(_)
TotalOf(rows) ==
    IF rows = {} THEN 0
    ELSE LET r == CHOOSE x \in rows : TRUE
         IN  r.current_value + TotalOf(rows \ {r})

\* The Trade row of the last run, if it recorded one.
LastTrades == {t \in trades : Answered /\ The(last.result).trade = Some(TradeDict(t))}

\* C3: every trade a run records has quantity = portfolio_value x
\* position_size / price, portfolio_value being the sum of current_value over
\* the investments of the strategy's portfolio when the run was made and
\* price the price stored on the trade.
C3_QuantityIsSizedPosition ==
    [][\A t \in trades' \ trades :
          \E st \in strategies :
              /\ st.id = t.strategy_id
              /\ t.price > 0
              /\ LET held == {i \in investments : i.portfolio_id = st.portfolio_id}
                     ps == st.position_size
                 IN  t.quantity.num * (ps.den * t.price)
                        = t.quantity.den * (TotalOf(held) * ps.num)]_vars

\* A recorded trade sized from a portfolio that holds investments.
C3_Witness ==
    \E t \in LastTrades :
        /\ t.quantity.num > 0
        /\ t.quantity.den > 1
        /\ \E i \in investments : i.portfolio_id = t.portfolio_id

\* C4: every Trade row a run records has status 'filled', side equal to the
\* signal's action, which is 'buy' or 'sell', and the signal's symbol,
\* predicted_return and confidence; execute_paper_trade records nothing for
\* a missing signal or a 'hold' signal.
C4_TradeCarriesSignal ==
    [][/\ \A t \in trades' \ trades :
            /\ last'.op = "run_strategy" /\ last'.result # None
            /\ LET sig == The(last'.result).signal
               IN  /\ t.status = "filled"
                   /\ t.side = sig.action
                   /\ t.side \in {"buy", "sell"}
                   /\ t.symbol = sig.symbol
                   /\ t.predicted_return = sig.predicted_return
                   /\ t.confidence = sig.confidence
       /\ (last'.op = "run_strategy"
            /\ (last'.result = None \/ The(last'.result).signal.action = "hold"))
           => trades' = trades
       /\ \A st \in strategies, io \in RunInputs :
            /\ execute_paper_trade(st, None, marketData, io).row = None
            /\ execute_paper_trade(st,
                    Some([symbol |-> st.symbol, action |-> "hold",
                          predicted_return |-> RatInt(0),
                          confidence |-> st.sigma_mean]),
                    marketData, io).row = None]_vars

\* A run recorded a sell trade.
C4_Witness ==
    \E t \in LastTrades : t.side = "sell" /\ t.status = "filled"

\* What the last run logged under a message.
LoggedUnder(messages) == {e \in last.logged : e[1] \in messages}

C5_ReachFetchFailure ==
    Ran /\ <<"Error getting market data", BrokerageError>> \in last.logged
C5_ReachStoreFailure ==
    Ran /\ <<"Error getting market data", CommitError>> \in last.logged
C5_ReachFitFailure ==
    Ran /\ <<"Error fitting statistical model", CommitError>> \in last.logged

\* The number of stored rows of a symbol.
CountOf(rows, symbol) ==
    Cardinality({i \in 1..Len(rows) : rows[i].symbol = symbol})
StoredCount(md, symbol) == CountOf(Flatten(md), symbol)

\* C6 as stated: with both credentials the live source is consulted, else
\* the stored rows are used; and when the live data cannot be obtained the
\* stored rows of the symbol are the data of the run.
C6_StoredRowsAreFallback ==
    (Ran /\ last.source # "none") =>
        /\ last.source = (IF env.api_key /\ env.secret_key THEN "live" ELSE "stored")
        /\ (LoggedUnder({"Error getting market data"}) # {}
             /\ StoredCount(marketData, LastStrategy.symbol) >= 2)
              => last.n_returns # None

\* C6, amended: with both credentials a run fetches the live bars and stores
\* them, and when that fails it has no data and returns None, whatever rows
\* are stored; without both credentials it reads the stored rows of the
\* symbol, at most LookbackDays of them, and stores nothing.
C6_LiveWithCredentialsElseStored ==
    [][(last'.op = "run_strategy" /\ last'.source # "none") =>
          LET st == The({s \in strategies : s.id = last'.strategy_id})
              count == StoredCount(marketData, st.symbol)
              failed == \E e \in last'.logged : e[1] = "Error getting market data"
              missing == <<"No market data found for symbol", st.symbol>>
                            \in last'.logged
          IN  IF env.api_key /\ env.secret_key
              THEN /\ ~missing
                   /\ \/ /\ failed
                         /\ marketData' = marketData
                         /\ last'.n_returns = None
                         /\ last'.result = None
                      \/ /\ ~failed
                         /\ Len(marketData') = Len(marketData) + 1
                         /\ SubSeq(marketData', 1, Len(marketData)) = marketData
                         /\ LET bars == marketData'[Len(marketData')]
                            IN  /\ \A i \in 1..Len(bars) :
                                     bars[i].symbol = st.symbol
                                       /\ bars[i].time = "session"
                                /\ last'.n_returns =
                                     (IF Len(bars) < 2 THEN None
                                      ELSE Some(Len(bars) - 1))
              ELSE /\ marketData' = marketData
                   /\ ~failed
                   /\ missing <=> count = 0
                   /\ last'.n_returns =
                        (IF count < 2 THEN None
                         ELSE IF count < LookbackDays THEN Some(count - 1)
                         ELSE Some(LookbackDays - 1))]_vars

\* With both credentials and rows of the symbol stored, the fetch failed and
\* the run had no data.
C6_Witness ==
    /\ Ran
    /\ env.api_key /\ env.secret_key
    /\ <<"Error getting market data", BrokerageError>> \in last.logged
    /\ StoredCount(marketData, LastStrategy.symbol) >= 2
    /\ last.n_returns = None

\* Other cases of C6 that are reached.
C6_ReachStoredWithKeyOnly ==
    Ran /\ env.api_key /\ ~env.secret_key /\ last.n_returns = Some(LookbackDays - 1)
C6_ReachLive ==
    Ran /\ last.source = "live" /\ last.n_returns = Some(MinReturns)

\* C9: no two MarketData rows have the same symbol and date.
C9_OneRowPerSymbolAndDate ==
    \A i, j \in 1..Len(Rows) :
        (Rows[i].symbol = Rows[j].symbol
         /\ Rows[i].date = Rows[j].date
         /\ Rows[i].time = Rows[j].time) => i = j

\* C7: deleting a portfolio succeeds and removes the portfolio, its
\* investments, its strategies and the trades of those strategies: afterwards
\* no Investment, TradingStrategy or Trade row has the deleted portfolio's
\* id, no trade is left without its strategy, and the rows of the other
\* portfolios are all still there.
C7_DeleteCascades ==
    [][last'.op = "delete_portfolio" =>
          LET id == last'.portfolio_id
          IN  /\ last'.success
              /\ \E p \in portfolios : p.id = id
              /\ portfolios' = {p \in portfolios : p.id # id}
              /\ \A i \in investments' : i.portfolio_id # id
              /\ \A st \in strategies' : st.portfolio_id # id
              /\ \A t \in trades' :
                    /\ t.portfolio_id # id
                    /\ \E st \in strategies' : st.id = t.strategy_id
              /\ \A i \in investments : i.portfolio_id # id => i \in investments'
              /\ \A st \in strategies : st.portfolio_id # id => st \in strategies'
              /\ \A t \in trades : t.portfolio_id # id => t \in trades'
              /\ investments' \subseteq investments
              /\ strategies' \subseteq strategies
              /\ trades' \subseteq trades]_vars

\* The only portfolio ever created was deleted after it had an investment,
\* a strategy and a trade, and none of them is left.
C7_Witness ==
    /\ last.op = "delete_portfolio"
    /\ last.success
    /\ seq.portfolio = 1
    /\ seq.investment >= 1 /\ seq.strategy >= 1 /\ seq.trade >= 1
    /\ investments = {} /\ strategies = {} /\ trades = {}

\* A delete that leaves the rows of another portfolio in place.
C7_ReachOtherKept ==
    /\ last.op = "delete_portfolio"
    /\ trades # {}
    /\ seq.trade = MaxTrades

\* C8: a portfolio created with POST /api/portfolios is listed by GET
\* /api/portfolios with the id the create call answered and the same name,
\* description and created_at; it is listed once.
C8_CreateThenListRoundTrips ==
    (last.op = "create_portfolio" /\ last.status = 201) =>
        /\ Cardinality({e \in PortfolioListing : e.id = last.portfolio.id}) = 1
        /\ \A e \in PortfolioListing :
              e.id = last.portfolio.id =>
                 /\ e.name = last.portfolio.name
                 /\ e.description = last.portfolio.description
                 /\ e.created_at = last.portfolio.created_at

\* A second portfolio, with a description, created in the second half of a
\* second, so that its stored created_at is the next second.
C8_Witness ==
    /\ last.op = "create_portfolio"
    /\ last.status = 201
    /\ last.portfolio.id = 2
    /\ last.portfolio.description = "Core holdings"
    /\ last.portfolio.created_at = <<today, 1>>
    /\ Cardinality(portfolios) = 2

\* C10: every Investment, TradingStrategy and Trade row references exactly
\* one existing Portfolio, and every Trade has the portfolio_id of the
\* strategy it belongs to; a POST /api/strategies without a portfolio_id, or
\* with one of no portfolio, is answered 500 and stores nothing.
C10_RowsReferenceOnePortfolio ==
    LET owners(id) == {p \in portfolios : p.id = id}
    IN  /\ \A i \in investments : Cardinality(owners(i.portfolio_id)) = 1
        /\ \A st \in strategies : Cardinality(owners(st.portfolio_id)) = 1
        /\ \A t \in trades :
              /\ Cardinality(owners(t.portfolio_id)) = 1
              /\ \E st \in strategies :
                    st.id = t.strategy_id /\ st.portfolio_id = t.portfolio_id
        /\ (last.op = "create_strategy" /\ last.status = 201)
              => \E st \in strategies :
                    st.id = last.id /\ owners(st.portfolio_id) # {}

\* Rows of all three kinds are stored, for two portfolios, and a trade of
\* the second portfolio's strategy was just recorded.
C10_Witness ==
    /\ investments # {} /\ strategies # {}
    /\ Cardinality(portfolios) = 2
    /\ \E t \in LastTrades : t.portfolio_id = 2

\* A request to create a strategy was refused.
C10_ReachRefused == last.op = "create_strategy" /\ last.status = 500

\* The Trade rows of a strategy.
TradesOf(strategy_id) == {t \in trades : t.strategy_id = strategy_id}

\* C11: each strategy's counters match its trades: total_trades is the number
\* of Trade rows with the strategy's id, and winning_trades is at most
\* total_trades.
C11_CountersMatchTrades ==
    \A st \in strategies :
        /\ st.total_trades = Cardinality(TradesOf(st.id))
        /\ st.winning_trades <= st.total_trades

\* C11, one run at a time: total_trades rises by one with each Trade row a
\* run records, and not otherwise.
C11_OnePerRecordedTrade ==
    [][\A st \in strategies, su \in strategies' :
          su.id = st.id =>
              su.total_trades - st.total_trades
                  = Cardinality({t \in trades' \ trades : t.strategy_id = st.id})]_vars

\* A run stored its Trade row and then failed to store the counters.
C11_ReachUncounted ==
    /\ Ran
    /\ <<"Error executing paper trade", CommitError>> \in last.logged
    /\ Cardinality(TradesOf(last.strategy_id)) = 1
    /\ LastStrategy.total_trades = 0

\* C12: calculate_returns yields the first differences of the closing
\* prices in their order: n >= 2 prices give n-1 returns with
\* returns[i] = close[i+1] - close[i], so that each price is the first price
\* plus the returns before it; a missing frame or one of fewer than two rows
\* gives None.
C12_ReturnsAreFirstDifferences ==
    last.op = "calculate_returns" =>
        IF last.price_data = None \/ Len(The(last.price_data)) < 2
        THEN last.returns = None
        ELSE /\ last.returns # None
             /\ LET close == The(last.price_data)
                    returns == The(last.returns)
                IN  /\ Len(returns) = Len(close) - 1
                    /\ \A i \in 1..Len(returns) :
                          /\ returns[i] + close[i] = close[i + 1]
                          /\ close[1] + SumOver(returns, 1, i, 0) = close[i + 1]

\* Four prices that fall and then rise gave three returns.
C12_Witness ==
    /\ last.op = "calculate_returns"
    /\ last.price_data = Some(<<150, 148, 153, 153>>)
    /\ last.returns = Some(<<-2, 5, 0>>)

\* Other cases of C12 that are reached.
C12_ReachNoFrame == last.op = "calculate_returns" /\ last.price_data = None
C12_ReachOneRow ==
    /\ last.op = "calculate_returns"
    /\ last.price_data = Some(<<150>>)
    /\ last.returns = None

\* The rows the last run took its prices from, oldest first: the bars it
\* fetched and stored, or the stored rows of the strategy's symbol.
LastRows ==
    IF last.source = "live" THEN marketData[Len(marketData)]
    ELSE Reverse(Limit(QueryDesc(marketData, LastStrategy.symbol, "asc"),
                       LookbackDays))
\* The day-to-day differences of their closing prices.
LastReturns ==
    [i \in 1..(Len(LastRows) - 1) |->
        LastRows[i + 1].close_price - LastRows[i].close_price]

RatNeg(a) == [num |-> -a.num, den |-> a.den]

\* The line intercept + slope * x is the least-squares line of y over
\* x = 0..Len(y)-1: the residuals sum to zero, and so do the residuals
\* weighted by x (the normal equations).
IsLeastSquaresLine(intercept, slope, y) ==
    LET k == Len(y)
        sumX == (k * (k - 1)) \div 2
        sumXX == ((k - 1) * k * (2 * k - 1)) \div 6
    IN  /\ RatAdd(RatMul(intercept, RatInt(k)), RatMul(slope, RatInt(sumX)))
              = RatInt(SumOver(y, 1, k, 0))
        /\ RatAdd(RatMul(intercept, RatInt(sumX)), RatMul(slope, RatInt(sumXX)))
              = RatInt(SumOver(y, 1, k, 1))

\* C13: the predicted return of a signal is intercept + slope * k, where
\* intercept and slope are those of the least-squares line of the run's k
\* returns over the day indices 0..k-1 (the parameters the fit stored on the
\* strategy) and k is the first index after them; without a model the
\* prediction is (None, None), and a run that fitted no model has no signal.
C13_PredictionAtNextIndex ==
    /\ Answered =>
          LET k == The(last.n_returns)
              intercept == LastStrategy.alpha_mean
              slope == LastStrategy.beta_mean
          IN  /\ k = Len(LastReturns)
              /\ IsLeastSquaresLine(intercept, slope, LastReturns)
              /\ RatAdd(LastSignal.predicted_return, RatNeg(intercept))
                    = RatMul(slope, RatInt(k))
    /\ (Ran /\ (last.n_returns = None \/ The(last.n_returns) < MinReturns
                \/ LoggedUnder({"Error fitting statistical model"}) # {}))
          => last.result = None
    /\ \A k \in 0..MinReturns :
          /\ predict_next_return(None, k).predicted_return = None
          /\ predict_next_return(None, k).confidence = None

\* A signal whose prediction differs from the intercept: the slope is not
\* zero.
C13_Witness ==
    /\ Answered
    /\ LastStrategy.beta_mean.num # 0
    /\ LastSignal.predicted_return # LastStrategy.alpha_mean
    /\ The(last.n_returns) >= MinReturns

\* Other cases of C13 that are reached.
C13_ReachStoredRows ==
    Answered /\ last.source = "stored" /\ last.n_returns = Some(LookbackDays - 1)
C13_ReachNoModel == Ran /\ last.n_returns = Some(MinReturns - 1)

\* The day indices 0..k-1.
DayIndex(k) == [i \in 1..k |-> i - 1]

\* C14: for a return array y of k >= MinReturns values regressed on the day
\* index X = 0..k-1, the fit's slope is cov(X, y) / var(X) and its intercept
\* is mean(y) - slope * mean(X); a shorter array gives no model.
C14_FitIsOrdinaryLeastSquares ==
    last.op = "fit_statistical_model" =>
        LET y == last.returns
            k == Len(y)
            sumX == SumOver(DayIndex(k), 1, k, 0)
            sumXX == SumOver(DayIndex(k), 1, k, 2)
            sumY == SumOver(y, 1, k, 0)
            sumXY == SumOver(y, 1, k, 1)
            \* k^2 * cov(X, y) and k^2 * var(X)
            cov == k * sumXY - sumX * sumY
            var == k * sumXX - sumX * sumX
        IN  IF k < MinReturns THEN last.model = None
            ELSE /\ last.model # None
                 /\ var > 0
                 /\ The(last.model).slope = Rat(cov, var)
                 /\ RatMul(The(last.model).intercept, RatInt(k))
                       = RatAdd(RatInt(sumY),
                                RatNeg(RatMul(The(last.model).slope, RatInt(sumX))))

\* A fit of twelve returns with a slope and an intercept that are not whole
\* numbers.
C14_Witness ==
    /\ last.op = "fit_statistical_model"
    /\ Len(last.returns) = MinReturns + 2
    /\ last.model # None
    /\ The(last.model).slope.den > 1
    /\ The(last.model).intercept.den > 1

\* Other cases of C14 that are reached.
C14_ReachTooShort ==
    /\ last.op = "fit_statistical_model"
    /\ Len(last.returns) = MinReturns - 1
    /\ last.model = None

\* The square of a standard error kept as a product.
Squared(std) == RatMul(std.sq, std.times)

\* C15: after a run whose fit succeeded, the strategy holds the results of
\* the least-squares fit of the run's returns y over x = 0..k-1: alpha_mean
\* the intercept, beta_mean the slope, alpha_std and beta_std the standard
\* error of the slope (its square is the residual sum of squares over
\* (k - 2) * sum((x - mean(x))^2)) and sigma_mean the standard deviation of
\* the returns (its square is mean(y^2) - mean(y)^2), whatever the action of
\* the signal and whether or not a trade was stored.
C15_FitOverwritesParameters ==
    Answered =>
        LET st == LastStrategy
            y == LastReturns
            k == Len(y)
            sumX == SumOver(DayIndex(k), 1, k, 0)
            sumXX == SumOver(DayIndex(k), 1, k, 2)
            sumY == SumOver(y, 1, k, 0)
            sumXY == SumOver(y, 1, k, 1)
            sumYY == SumOver(y, 1, k, 2)
            fitted == RatAdd(RatMul(st.alpha_mean, RatInt(sumY)),
                             RatMul(st.beta_mean, RatInt(sumXY)))
            residual == RatAdd(RatInt(sumYY), RatNeg(fitted))
        IN  /\ k >= MinReturns
            /\ IsLeastSquaresLine(st.alpha_mean, st.beta_mean, y)
            /\ st.alpha_std = st.beta_std
            /\ Squared(st.beta_std)
                  = RatMul(residual, Rat(k, (k - 2) * (k * sumXX - sumX * sumX)))
            /\ st.sigma_mean.sq = Rat(k * sumYY - sumY * sumY, k * k)

\* The parameters of a fit were stored with a 'hold' signal, and they are
\* not the defaults of the columns.
C15_Witness ==
    /\ Answered
    /\ LastSignal.action = "hold"
    /\ LastStrategy.beta_mean.num # 0
    /\ LastStrategy.alpha_mean.num # 0
    /\ LastStrategy.sigma_mean # Sqrt(RatInt(1))

\* Other cases of C15 that are reached.
C15_ReachWithFailedTrade ==
    /\ Answered
    /\ LoggedUnder({"Error executing paper trade"}) # {}
    /\ LastStrategy.beta_mean.num # 0
C15_ReachRefit ==
    /\ Answered
    /\ LastSignal.action = "sell"
    /\ \E t \in TradesOf(last.strategy_id) : t.side = "buy"

\* The route logged an exception that escaped the service.
Raised == LoggedUnder({"Error running strategy"}) # {}

\* C16: POST /api/strategies/<id>/run answers 500 with an error payload
\* exactly when an exception escaped, 404 with an error payload exactly when
\* run_strategy returned None, and 200 with success and the result
\* otherwise; run_strategy returns None exactly when the strategy is
\* missing or inactive, there is no data or there are fewer than MinReturns
\* returns, or a failure before the signal was caught, and all of these are
\* answered with the same 404 payload.
C16_RunRouteStatus ==
    Ran =>
        LET found == {s \in strategies : s.id = last.strategy_id}
            noSignal ==
                \/ found = {}
                \/ \E s \in found : ~s.is_active
                \/ last.n_returns = None
                \/ \E k \in last.n_returns : k < MinReturns
                \/ LoggedUnder({"Error getting market data",
                                "Error fitting statistical model"}) # {}
        IN  /\ last.status \in {200, 404, 500}
            /\ last.status = 500 <=> Raised
            /\ last.status = 404 <=> (~Raised /\ last.result = None)
            /\ last.status = 200 <=> last.result # None
            /\ last.status = 500
                  => ~last.success /\ last.error = Some(ClientError)
            /\ last.status = 404
                  => /\ ~last.success
                     /\ last.error = Some("Strategy not found or inactive")
            /\ last.status = 200 => last.success /\ last.error = None
            /\ ~Raised => (last.result = None <=> noSignal)

\* An existing, active strategy with enough bars was answered 404 because
\* storing the fit failed.
C16_Witness ==
    /\ Ran
    /\ last.status = 404
    /\ LoggedUnder({"Error fitting statistical model"}) # {}
    /\ LastStrategy.is_active
    /\ last.n_returns = Some(MinReturns)

\* Other cases of C16 that are reached.
C16_ReachEscaped == Ran /\ last.status = 500
C16_ReachResult ==
    Ran /\ last.status = 200 /\ The(last.result).trade # None
C16_ReachTradeFailed ==
    /\ Ran /\ last.status = 200
    /\ LoggedUnder({"Error executing paper trade"}) # {}
C16_ReachTooFew ==
    Ran /\ last.status = 404 /\ last.n_returns = Some(MinReturns - 1)
C16_ReachNoData ==
    /\ Ran /\ last.status = 404 /\ last.source = "stored"
    /\ last.n_returns = None

\* C17: a run of a strategy id that does not exist, or of a strategy whose
\* is_active is false, returns None, fetches nothing and changes no stored
\* row: MarketData, Trade and TradingStrategy stay as they were.
C17_MissingOrInactiveChangesNothing ==
    [][(/\ last'.op = "run_strategy"
        /\ \A s \in strategies : s.id = last'.strategy_id => ~s.is_active)
       => /\ last'.result = None
          /\ last'.status \in {404, 500}
          /\ last'.source = "none"
          /\ \A e \in last'.logged : e[1] = "Error running strategy"
          /\ marketData' = marketData
          /\ trades' = trades
          /\ strategies' = strategies
          /\ seq' = seq]_vars

\* A strategy that had been run and had a trade was switched off and run
\* again with bars to fetch: the answer was 404.
C17_Witness ==
    /\ Ran
    /\ last.status = 404
    /\ last.source = "none"
    /\ \E s \in strategies :
          s.id = last.strategy_id /\ ~s.is_active /\ s.total_trades = 1
    /\ HasClient

\* Other cases of C17 that are reached.
C17_ReachMissing ==
    /\ Ran
    /\ last.status = 404
    /\ last.strategy_id = MaxStrategies + 1
    /\ strategies # {}
C17_ReachInactiveStored ==
    /\ Ran /\ ~HasClient /\ marketData # <<>>
    /\ \E s \in strategies : s.id = last.strategy_id /\ ~s.is_active

\* C18: a run whose signal is 'hold' returns the signal with 'trade': None,
\* stores no Trade row and leaves total_trades and winning_trades of every
\* strategy as they were; a Trade row is stored, and a trade returned, only
\* with a 'buy' or 'sell' signal, one row for the run, sized into a
\* quantity and priced.
C18_HoldBooksNothing ==
    [][last'.op = "run_strategy" =>
          LET result == last'.result
              held == result # None /\ The(result).signal.action = "hold"
          IN  /\ held =>
                    /\ DOMAIN The(result) = {"signal", "trade"}
                    /\ The(result).trade = None
                    /\ trades' = trades
                    /\ seq'.trade = seq.trade
                    /\ \A st \in strategies :
                          \E su \in strategies' :
                              /\ su.id = st.id
                              /\ su.total_trades = st.total_trades
                              /\ su.winning_trades = st.winning_trades
              /\ (trades' # trades \/ (result # None /\ The(result).trade # None))
                    => /\ result # None
                       /\ The(result).signal.action \in {"buy", "sell"}
                       /\ Cardinality(trades' \ trades) = 1
                       /\ trades \subseteq trades'
                       /\ \A t \in trades' \ trades :
                             /\ t.strategy_id = last'.strategy_id
                             /\ t.price > 0
                             /\ t.quantity.den > 0]_vars

\* A strategy that had recorded a trade was run again and held: its
\* counters and its one trade are as before.
C18_Witness ==
    /\ Answered
    /\ LastSignal.action = "hold"
    /\ The(last.result).trade = None
    /\ LastStrategy.total_trades = 1
    /\ Cardinality(TradesOf(last.strategy_id)) = 1

\* Other cases of C18 that are reached.
C18_ReachBooked ==
    /\ Answered
    /\ LastSignal.action = "buy"
    /\ The(last.result).trade # None
    /\ LastStrategy.total_trades = 2

\* How often a row occurs in a sequence of rows, and how many of its rows
\* are dated after a day.
Occurrences(rows, r) == Cardinality({i \in 1..Len(rows) : rows[i] = r})
DatedAfter(rows, d) == Cardinality({i \in 1..Len(rows) : rows[i].date > d})

\* `got` are min(days, count) of the rows `of`, in ascending order of date,
\* none taken more often than it is there, and every row of `of` dated
\* after the oldest row taken is among them.
AreNewestAscending(got, of, days) ==
    /\ Len(got) = (IF Len(of) < days THEN Len(of) ELSE days)
    /\ \A i \in 1..(Len(got) - 1) : got[i].date <= got[i + 1].date
    /\ \A r \in {got[i] : i \in 1..Len(got)} :
          Occurrences(got, r) <= Occurrences(of, r)
    /\ DatedAfter(of, got[1].date) = DatedAfter(got, got[1].date)

\* The rows of a symbol in a sequence of rows.
RowsOf(rows, symbol) == SelectSeq(rows, LAMBDA r : r.symbol = symbol)

\* C19: without both credentials get_market_data(symbol, days) answers from
\* the stored rows of the symbol and stores nothing: None when there is no
\* such row, else the closing prices of min(days, count) of these rows, in
\* ascending order of date, no stored row taken more often than it is
\* stored, and every stored row of the symbol that is dated after the oldest
\* row taken is among them.
C19_NewestStoredRowsAscending ==
    [][(last'.op = "get_market_data" /\ ~HasClient) =>
          /\ marketData' = marketData
          /\ last'.source = "stored"
          /\ \E of \in {RowsOf(Flatten(marketData), last'.symbol)} :
                IF Len(of) = 0 THEN last'.data = None
                ELSE /\ last'.data
                          = Some([i \in 1..Len(last'.rows) |->
                                     last'.rows[i].close_price])
                     /\ AreNewestAscending(last'.rows, of, last'.days)]_vars

\* Read without credentials: more rows of the symbol are stored than were
\* asked for, some of them twice for a date, and the newest were returned.
C19_Witness ==
    /\ last.op = "get_market_data"
    /\ ~HasClient
    /\ last.days = LookbackDays
    /\ Len(last.rows) = LookbackDays
    /\ StoredCount(marketData, last.symbol) > LookbackDays
    /\ \E i \in 1..(Len(last.rows) - 1) : last.rows[i].date = last.rows[i + 1].date
    /\ last.rows[Len(last.rows)].date = today

\* Other cases of C19 that are reached.
C19_ReachNoRows ==
    last.op = "get_market_data" /\ ~HasClient /\ last.data = None
C19_ReachFewerThanAsked ==
    /\ last.op = "get_market_data" /\ ~HasClient
    /\ last.days = LookbackDays
    /\ Len(last.rows) = 1

\* `price` is the closing price of a row of `of` that no row is dated after.
IsCloseOfNewest(price, of) ==
    \E i \in 1..Len(of) :
        /\ of[i].close_price = price
        /\ \A j \in 1..Len(of) : of[j].date <= of[i].date

\* C20: the price on a trade execute_paper_trade stores is the brokerage's
\* latest trade price when there is a trading client and it answered;
\* otherwise the closing price of a stored row of the signal's symbol with
\* the greatest date; and DefaultPrice when no row of the symbol is stored.
\* The trade returned carries the same price.
C20_PriceIsLatestKnown ==
    [][last'.op = "execute_paper_trade" =>
          /\ \A t \in trades' \ trades :
                /\ t.symbol = The(last'.signal).symbol
                /\ \E of \in {RowsOf(Flatten(marketData), t.symbol)} :
                      IF HasClient /\ last'.quote # None
                      THEN t.price = The(last'.quote)
                      ELSE IF Len(of) = 0 THEN t.price = DefaultPrice
                      ELSE IsCloseOfNewest(t.price, of)
          /\ \A t \in last'.trade : t \in trades' \ trades
          /\ (/\ last'.signal # None
              /\ \E sig \in last'.signal : sig.action # "hold"
              /\ last'.quote # Some(0))
                => last'.trade # None]_vars

\* With a trading client that did not answer, and rows of the symbol stored
\* twice for today at different prices, a trade took the price of one of
\* today's rows, which is not the price of the row stored last.
C20_Witness ==
    /\ last.op = "execute_paper_trade"
    /\ HasClient
    /\ last.quote = None
    /\ \E t \in last.trade :
          /\ t.price # DefaultPrice
          /\ Len(Rows) >= 2
          /\ Rows[Len(Rows)].symbol = t.symbol
          /\ Rows[Len(Rows)].date = today
          /\ Rows[Len(Rows)].close_price # t.price

\* Other cases of C20 that are reached.
C20_ReachQuoted ==
    /\ last.op = "execute_paper_trade"
    /\ last.quote = Some(150)
    /\ \E t \in last.trade : t.price = 150 /\ StoredCount(marketData, t.symbol) > 0
C20_ReachDefault ==
    /\ last.op = "execute_paper_trade"
    /\ \E t \in last.trade :
          /\ t.price = DefaultPrice
          /\ StoredCount(marketData, t.symbol) = 0
          /\ marketData # <<>>
C20_ReachStoredWithoutClient ==
    /\ last.op = "execute_paper_trade"
    /\ ~HasClient
    /\ today = MaxDay
    /\ \E t \in last.trade :
          /\ t.price # DefaultPrice
          /\ \E i \in 1..Len(Rows) : Rows[i].date < today

\* ----------------------------------------------------------------------- C21
\* The last request was a POST of a portfolio or of a strategy.
Posted(l) == l.op \in {"create_portfolio", "create_strategy"}
\* The request body has the columns that may not be NULL.
HasColumns(data, columns) == \A c \in columns : Get(data, c) # None
\* `rows` with one more row, of the next id, carrying the request's values.
OneMoreRow(after, before, data, columns) ==
    \E row \in after \ before :
        /\ after = before \cup {row}
        /\ \A r \in before : r.id < row.id
        /\ \A c \in columns : row[c] = data[c]

\* C21: a POST /api/portfolios or POST /api/strategies that fails (a body
\* without name, without symbol, without portfolio_id, or naming a portfolio
\* that does not exist) is answered with 500 and success false and leaves
\* the stored portfolios and strategies as they were; a request that
\* follows a failed one and has valid values is answered with 201 and adds
\* its row.
C21_FailedPostChangesNothing ==
    [][/\ \A data \in PortfolioRequests :
             CreatePortfolio(data, 0) /\ ~HasColumns(data, {"name"})
                => last'.status = 500
       /\ \A data \in StrategyBodies :
             /\ CreateStrategy(data)
             /\ \/ ~HasColumns(data, {"name", "symbol", "portfolio_id"})
                \/ \A p \in portfolios : p.id # data.portfolio_id
             => last'.status = 500
       /\ Posted(last') /\ last'.status = 500
             => /\ last'.success = FALSE
                /\ portfolios' = portfolios
                /\ strategies' = strategies
       /\ Posted(last) /\ last.status = 500
             => /\ \A data \in PortfolioRequests :
                      CreatePortfolio(data, 0) /\ HasColumns(data, {"name"})
                         => /\ last'.status = 201 /\ last'.success
                            /\ OneMoreRow(portfolios', portfolios, data, {"name"})
                            /\ strategies' = strategies
                /\ \A data \in StrategyBodies :
                      /\ CreateStrategy(data)
                      /\ HasColumns(data, {"name", "symbol", "portfolio_id"})
                      /\ \E p \in portfolios : p.id = data.portfolio_id
                      => /\ last'.status = 201 /\ last'.success
                         /\ OneMoreRow(strategies', strategies, data,
                                       {"name", "symbol", "portfolio_id"})
                         /\ portfolios' = portfolios]_vars

\* A strategy request was refused while portfolios and strategies are stored.
C21_Witness ==
    /\ last.op = "create_strategy" /\ last.status = 500
    /\ portfolios # {} /\ strategies # {}

\* A portfolio request was refused while portfolios and strategies are stored.
C21_ReachRefusedPortfolio ==
    /\ last.op = "create_portfolio" /\ last.status = 500
    /\ portfolios # {} /\ strategies # {}

\* No request is accepted right after a refused one: refuted by every run
\* in which a valid request follows a failed one.
C21_NeverAcceptedAfterRefused ==
    [][~(Posted(last) /\ last.status = 500 /\ Posted(last') /\ last'.status = 201)]_vars

\* ----------------------------------------------------------------------- C22
\* The strategy of id `id` among `rows`.
StrategyOf(rows, id) == The({s \in rows : s.id = id})

C22_ReachBoughtAndSold ==
    \E s \in strategies :
        /\ s.total_trades = 2
        /\ {t.side : t \in {x \in trades : x.strategy_id = s.id}} = {"buy", "sell"}

\* The listing shows a strategy without trades.
C22_ReachListedWithoutTrades ==
    /\ last.op = "get_strategies"
    /\ \E d \in last.strategies : d.total_trades = 0

\* A trade is stored that neither counter counts.
C22_ReachUncounted ==
    \E s \in strategies :
        /\ s.total_trades = 0
        /\ \E t \in trades : t.strategy_id = s.id

\* ----------------------------------------------------------------------- C23
\* The counters of the strategy of id `id` among `rows`.
CountersOf(rows, id) ==
    [total_trades |-> StrategyOf(rows, id).total_trades,
     winning_trades |-> StrategyOf(rows, id).winning_trades]

\* The last call of execute_paper_trade, made directly or by a run whose
\* signal was not a hold, returned no trade.
ReturnedNoTrade(l) ==
    \/ l.op = "execute_paper_trade" /\ l.trade = None
    \/ /\ l.op = "run_strategy"
       /\ l.result # None
       /\ The(l.result).signal.action # "hold"
       /\ The(l.result).trade = None

\* It returned a trade.
ReturnedTrade(l) ==
    \/ l.op = "execute_paper_trade" /\ l.trade # None
    \/ l.op = "run_strategy" /\ l.result # None /\ The(l.result).trade # None

\* C23: execute_paper_trade is all or nothing: when it returns a trade one
\* Trade row was added and total_trades of the strategy is one more, and
\* when it returns None no Trade row was added and the counters of the
\* strategy are as they were.
C23_AllOrNothing ==
    [][/\ ReturnedTrade(last')
          => /\ Cardinality(trades' \ trades) = 1 /\ trades \subseteq trades'
             /\ CountersOf(strategies', last'.strategy_id).total_trades
                   = CountersOf(strategies, last'.strategy_id).total_trades + 1
       /\ ReturnedNoTrade(last')
          => /\ trades' = trades
             /\ CountersOf(strategies', last'.strategy_id)
                   = CountersOf(strategies, last'.strategy_id)]_vars

\* What holds of the code: a returned trade is a stored and counted one, and
\* without a returned trade the counters are as they were.
C23_TradeOnlyIfBooked ==
    [][/\ ReturnedTrade(last')
          => /\ Cardinality(trades' \ trades) = 1 /\ trades \subseteq trades'
             /\ CountersOf(strategies', last'.strategy_id).total_trades
                   = CountersOf(strategies, last'.strategy_id).total_trades + 1
       /\ ReturnedNoTrade(last')
          => CountersOf(strategies', last'.strategy_id)
                = CountersOf(strategies, last'.strategy_id)]_vars

\* execute_paper_trade returned None and logged a failed commit while a
\* Trade row of the strategy is stored that total_trades does not count.
C23_ReachRowWithoutTrade ==
    /\ last.op = "execute_paper_trade"
    /\ last.trade = None
    /\ <<"Error executing paper trade", CommitError>> \in last.logged
    /\ Cardinality(TradesOf(last.strategy_id))
          > StrategyOf(strategies, last.strategy_id).total_trades

\* It returned None for a price of zero and nothing is stored.
C23_ReachZeroPrice ==
    /\ last.op = "execute_paper_trade"
    /\ last.trade = None
    /\ <<"Error executing paper trade", DivisionError>> \in last.logged
    /\ trades = {}

\* It returned a trade.
C23_ReachTrade ==
    last.op = "execute_paper_trade" /\ last.trade # None

====
